---- MODULE Spec2Model ----
(***************************************************************************)
(* A model of the 2D creature walking-evolution simulation:                *)
(*   src/config.py     configuration constants                             *)
(*   src/evolution.py  GeneticAlgorithm                                    *)
(*   src/creature.py   Creature (controller, fitness, death)               *)
(*   src/main.py       Simulation (generation loop)                        *)
(*                                                                         *)
(* Numbers.  The program computes in Python floats.  The model computes in *)
(* integers on fixed grids:                                                *)
(*   genes              1 unit = 0.000005  (so PHASE_MAX = 6.28318 is      *)
(*                      1256636 units and AMPLITUDE_MIN = 0.3 is 60000)    *)
(*   fitness            1 unit = 0.01                                      *)
(*   rates, ratios      1 unit = 0.001                                     *)
(* Gene arithmetic is rounded the way binary floating point rounds it      *)
(* (FRound), with a mantissa of Precision bits instead of 53.              *)
(***************************************************************************)
EXTENDS Integers, Sequences, FiniteSets, TLC

VARIABLES
    ga,               \* the GeneticAlgorithm object's fields
    population_genes, \* Simulation.population_genes
    evolveCall,       \* history: arguments and result of the last evolve call
    fnCall,           \* history: arguments and result of the last helper call
    creatures,        \* Simulation.creatures: the Creature objects and their bodies
    sim,              \* the Simulation object's other fields
    pc,               \* the position of Simulation.run in its loop
    hist,             \* history: the last Creature call and what the bodies went through
    config            \* the config module's globals that are assigned at run time

gaVars == <<ga, population_genes, evolveCall>>
simVars == <<creatures, sim, pc, hist>>
vars == <<ga, population_genes, evolveCall, fnCall, creatures, sim, pc, hist, config>>

(***************************************************************************)
(* Bounds of the model.                                                    *)
(***************************************************************************)
\* config.py:83 sets 15; the model evolves a smaller population.
POPULATION_SIZE == 5
\* config.py:85 sets 0.1 (10 percent); raised with the smaller population so
\* that two elites are kept.
ELITE_RATIO_PCT == 40
\* evolve is called at most this many times on one GeneticAlgorithm.
MaxGenerations == 1
\* random.random() and random.uniform() draw one of RandomSteps values.
RandomSteps == 5
\* Initial populations are generated from the seeds 0..MaxSeed.
MaxSeed == 2
\* _mutate is applied at most this many times in succession.
MaxMutations == 2
\* Mantissa bits of the model's floating point (a Python float has 53).
Precision == 19
\* The trial duration in frames of dt = 1 / FPS: config.py:84 sets 15.0 s,
\* 900 frames; the model's trials are shorter.
SIMULATION_TIME == 3
\* Simulation.run evolves at most this many generations.
MaxSimGenerations == 1

(***************************************************************************)
(* config.py                                                               *)
(***************************************************************************)
CREATURE_TYPE == "QUADRUPED"
MOTOR_COUNT == IF CREATURE_TYPE = "QUADRUPED" THEN 8 ELSE 4
GENES_PER_MOTOR == 3
GENE_COUNT == GENES_PER_MOTOR * MOTOR_COUNT
AMPLITUDE_MIN == 60000
AMPLITUDE_MAX == 200000
FREQUENCY_MIN == 100000
FREQUENCY_MAX == 500000
PHASE_MIN == 0
PHASE_MAX == 1256636
CROSSOVER_RATE == 800
MUTATION_RATE == 200
MUTATION_STRENGTH == 200
SELECTION_METHOD == "tournament"
TOURNAMENT_SIZE == 3
ADAPTIVE_MUTATION == TRUE
MUTATION_RATE_MAX == 500
MUTATION_STRENGTH_MAX == 400
DIVERSITY_THRESHOLD == 100
\* Lengths in pixels, angles and angular rates in thousandths of a radian,
\* weights in thousandths.
FPS == 60
PHYSICS_STEPS == 10
TORSO_WIDTH == IF CREATURE_TYPE = "QUADRUPED" THEN 100 ELSE 60
TORSO_HEIGHT == IF CREATURE_TYPE = "QUADRUPED" THEN 20 ELSE 30
QUADRUPED_LEG_X_OFFSET == IF CREATURE_TYPE = "QUADRUPED" THEN 8 ELSE 0
THIGH_LENGTH == 40
SHIN_LENGTH == 35
FOOT_HEIGHT == 5
UPRIGHT_HEIGHT_THRESHOLD == 50
UPRIGHT_ANGLE_THRESHOLD == 350
FITNESS_DISTANCE_WEIGHT == 5000
FITNESS_UPRIGHT_WEIGHT == 100
FITNESS_STEP_REWARD == 50000
STEP_MIN_LEG_DELTA == 15
\* A variant of the configuration in which every motor has its own frequency.
SharedFrequencyOff == FALSE
SHARED_FREQUENCY == TRUE
FITNESS_FALL_PENALTY == 200000
FITNESS_ENERGY_PENALTY == 10
TORSO_TOUCH_GROUND_DEATH == TRUE
TORSO_ANGLE_DEATH_THRESHOLD == 900
TORSO_HEIGHT_DEATH_THRESHOLD == 40
REFLEX_ENABLED == TRUE
REFLEX_BALANCE_GAIN == 1000
REFLEX_BALANCE_THRESHOLD == 150
REFLEX_VELOCITY_GAIN == 500
TORSO_MASS == IF CREATURE_TYPE = "QUADRUPED" THEN 8 ELSE 6
HIP_MIN_ANGLE == IF CREATURE_TYPE = "QUADRUPED" THEN -1200 ELSE -800
HIP_MAX_ANGLE == IF CREATURE_TYPE = "QUADRUPED" THEN 1200 ELSE 600
KNEE_MIN_ANGLE == IF CREATURE_TYPE = "QUADRUPED" THEN -500 ELSE 0
KNEE_MAX_ANGLE == IF CREATURE_TYPE = "QUADRUPED" THEN 1500 ELSE 1200
EXPECTED_STANDING_HEIGHT == THIGH_LENGTH + SHIN_LENGTH + FOOT_HEIGHT + TORSO_HEIGHT \div 2

\* The definitions above are the values config.py assigns when it is imported.
\* creature.py and evolution.py take them with "from config import *", which
\* binds their own names to these values once, at their import; main.py
\* imports both modules before it assigns anything in config.  The globals
\* of config that are assigned afterwards are the variable config, which
\* starts from the same values and which main.py reads as config.NAME.
ConfigDefaults ==
    [CREATURE_TYPE |-> CREATURE_TYPE,
     TORSO_WIDTH |-> TORSO_WIDTH,
     TORSO_HEIGHT |-> TORSO_HEIGHT,
     TORSO_MASS |-> TORSO_MASS,
     MOTOR_COUNT |-> MOTOR_COUNT,
     QUADRUPED_LEG_X_OFFSET |-> QUADRUPED_LEG_X_OFFSET,
     HIP_MIN_ANGLE |-> HIP_MIN_ANGLE,
     HIP_MAX_ANGLE |-> HIP_MAX_ANGLE,
     KNEE_MIN_ANGLE |-> KNEE_MIN_ANGLE,
     KNEE_MAX_ANGLE |-> KNEE_MAX_ANGLE,
     GENE_COUNT |-> GENE_COUNT,
     EXPECTED_STANDING_HEIGHT |-> EXPECTED_STANDING_HEIGHT,
     POPULATION_SIZE |-> POPULATION_SIZE,
     MUTATION_RATE |-> MUTATION_RATE,
     MUTATION_STRENGTH |-> MUTATION_STRENGTH]

(***************************************************************************)
(* Arithmetic.                                                             *)
(***************************************************************************)
Abs(x) == IF x < 0 THEN -x ELSE x
Max2(a, b) == IF a >= b THEN a ELSE b
Min2(a, b) == IF a <= b THEN a ELSE b

RECURSIVE Pow2(_)
Pow2(n) == IF n = 0 THEN 1 ELSE 2 * Pow2(n - 1)

\* The distance between neighbouring floats at magnitude a.
RECURSIVE SpacingFrom(_, _)
SpacingFrom(a, s) == IF a \div s < Pow2(Precision) THEN s ELSE SpacingFrom(a, 2 * s)
Spacing(a) == SpacingFrom(a, 1)

\* Round to the nearest float, ties to the even mantissa.
FRound(v) ==
    LET a == Abs(v)
        s == Spacing(a)
        q == a \div s
        r == a % s
        up == (2 * r > s) \/ (2 * r = s /\ q % 2 = 1)
        m == (IF up THEN q + 1 ELSE q) * s
    IN  IF v < 0 THEN -m ELSE m

\* Python float +.
FAdd(a, b) == FRound(a + b)

\* Python float / on the grid: the quotient rounded to the nearest unit.
FDiv(a, b) == (2 * a + b) \div (2 * b)

\* C fmod: exact, with the sign of x.
Fmod(x, y) == IF x < 0 THEN -(Abs(x) % Abs(y)) ELSE x % Abs(y)

\* Python float %: fmod, then the modulus is added when the signs differ,
\* and that sum is rounded like any other float sum.
PyMod(x, y) ==
    LET m == Fmod(x, y)
    IN  IF m # 0 /\ ((y < 0) # (m < 0)) THEN FAdd(m, y) ELSE m

\* x ** 0.5 on the grid: the largest k with k * k <= n, by bisection.
RECURSIVE IsqrtBetween(_, _, _)
IsqrtBetween(n, lo, hi) ==
    IF hi - lo <= 1 THEN lo
    ELSE LET mid == (lo + hi) \div 2
         IN  IF mid * mid <= n THEN IsqrtBetween(n, mid, hi)
             ELSE IsqrtBetween(n, lo, mid)
Isqrt(n) == IsqrtBetween(n, 0, Min2(n, 46340) + 1)

RECURSIVE SumSeq(_)
SumSeq(s) == IF s = <<>> THEN 0 ELSE Head(s) + SumSeq(Tail(s))

RECURSIVE MaxSeq(_)
MaxSeq(s) == IF Len(s) = 1 THEN s[1] ELSE Max2(Head(s), MaxSeq(Tail(s)))

RECURSIVE MinSeq(_)
MinSeq(s) == IF Len(s) = 1 THEN s[1] ELSE Min2(Head(s), MinSeq(Tail(s)))

\* random.uniform(a, b) = a + (b - a) * random(), random() = r / RandomSteps.
Uniform(a, b, r) == FAdd(a, FDiv((b - a) * r, RandomSteps))

\* gene_type = i % GENES_PER_MOTOR, for the 1-based position p = i + 1.
GeneType(p) == (p - 1) % GENES_PER_MOTOR

(***************************************************************************)
(* GeneticAlgorithm                                                        *)
(***************************************************************************)
GeneticAlgorithmInit ==
    [generation |-> 0,
     best_fitness_history |-> <<>>,
     avg_fitness_history |-> <<>>,
     diversity_history |-> <<>>,
     current_mutation_rate |-> MUTATION_RATE,
     current_mutation_strength |-> MUTATION_STRENGTH]

\* The random() draw of gene position p of genome k under a seed.
RandomStream(seed, k, p) == (p - 1 + seed * k) % RandomSteps

RandomGenes(seed, k) ==
    [p \in 1..GENE_COUNT |->
        IF GeneType(p) = 0
        THEN Uniform(AMPLITUDE_MIN, AMPLITUDE_MAX, RandomStream(seed, k, p))
        ELSE IF GeneType(p) = 1
        THEN Uniform(FREQUENCY_MIN, FREQUENCY_MAX, RandomStream(seed, k, p))
        ELSE Uniform(PHASE_MIN, PHASE_MAX, RandomStream(seed, k, p))]

CreateInitialPopulation(seed) ==
    [k \in 1..POPULATION_SIZE |-> RandomGenes(seed, k)]

\* _calculate_diversity, in thousandths.  The deviations are divided by the
\* gene range before they are squared (the code divides the standard
\* deviation afterwards), which keeps the squares small.
GeneRange(p) ==
    IF GeneType(p) = 0 THEN AMPLITUDE_MAX - AMPLITUDE_MIN
    ELSE IF GeneType(p) = 1 THEN FREQUENCY_MAX - FREQUENCY_MIN
    ELSE PHASE_MAX - PHASE_MIN

NormalizedStd(population, p) ==
    LET n == Len(population)
        gene_values == [k \in 1..n |-> population[k][p]]
        mean == FDiv(SumSeq(gene_values), n)
        dev == [k \in 1..n |-> FDiv((gene_values[k] - mean) * 1000, GeneRange(p))]
        variance == FDiv(SumSeq([k \in 1..n |-> dev[k] * dev[k]]), n)
    IN  IF GeneRange(p) > 0 THEN Isqrt(variance) ELSE 0

CalculateDiversity(population) ==
    IF Len(population) < 2 THEN 1000
    ELSE LET gene_count == Len(population[1])
             total_variance ==
                 SumSeq([p \in 1..gene_count |-> NormalizedStd(population, p)])
         IN  Min2(1000, FDiv(total_variance, gene_count))

UpdateAdaptiveMutation(g, diversity) ==
    IF ~ADAPTIVE_MUTATION THEN g
    ELSE IF diversity < DIVERSITY_THRESHOLD
    THEN LET ratio == 1000 - FDiv(diversity * 1000, DIVERSITY_THRESHOLD)
         IN  [g EXCEPT
                !.current_mutation_rate =
                    MUTATION_RATE + FDiv(ratio * (MUTATION_RATE_MAX - MUTATION_RATE), 1000),
                !.current_mutation_strength =
                    MUTATION_STRENGTH
                    + FDiv(ratio * (MUTATION_STRENGTH_MAX - MUTATION_STRENGTH), 1000)]
    ELSE [g EXCEPT !.current_mutation_rate = MUTATION_RATE,
                   !.current_mutation_strength = MUTATION_STRENGTH]
\* sorted(zip(fitness_scores, population), key=lambda x: x[0], reverse=True):
\* zip stops at the shorter argument; the sort is stable, so pairs of equal
\* fitness keep their order.
Zip(fitness_scores, population) ==
    [i \in 1..Min2(Len(fitness_scores), Len(population)) |->
        [fit |-> fitness_scores[i], genes |-> population[i]]]

\* Mutant: an insertion that puts a pair before the pairs of equal fitness.
RECURSIVE InsertBeforeEqual(_, _)
InsertBeforeEqual(s, x) ==
    IF s = <<>> THEN <<x>>
    ELSE IF Head(s).fit > x.fit THEN <<Head(s)>> \o InsertBeforeEqual(Tail(s), x)
    ELSE <<x>> \o s

RECURSIVE InsertDescending(_, _)
InsertDescending(s, x) ==
    IF s = <<>> THEN <<x>>
    ELSE IF Head(s).fit >= x.fit THEN <<Head(s)>> \o InsertDescending(Tail(s), x)
    ELSE <<x>> \o s

RECURSIVE SortFrom(_, _)
SortFrom(acc, rest) ==
    IF rest = <<>> THEN acc
    ELSE SortFrom(InsertDescending(acc, Head(rest)), Tail(rest))

SortedPairs(fitness_scores, population) ==
    SortFrom(<<>>, Zip(fitness_scores, population))

\* elite_count = max(1, int(POPULATION_SIZE * ELITE_RATIO))
EliteCount == Max2(1, (POPULATION_SIZE * ELITE_RATIO_PCT) \div 100)

\* random.sample(range(n), min(TOURNAMENT_SIZE, n)): every sequence of that
\* many pairwise distinct indices.
TournamentSamples(n) ==
    LET k == Min2(TOURNAMENT_SIZE, n)
    IN  {s \in [1..k -> 1..n] : \A a, b \in 1..k : a # b => s[a] # s[b]}

\* A variant of the tournament that returns the first index drawn.
WinnerFromFirst(best, rest, fitness_scores) == best

\* max(indices, key=...): the first index of the sample with the highest
\* fitness.
RECURSIVE WinnerFrom(_, _, _)
WinnerFrom(best, rest, fitness_scores) ==
    IF rest = <<>> THEN best
    ELSE WinnerFrom(IF fitness_scores[Head(rest)] > fitness_scores[best]
                    THEN Head(rest) ELSE best,
                    Tail(rest), fitness_scores)

TournamentSelection(population, fitness_scores, sample) ==
    population[WinnerFrom(sample[1], Tail(sample), fitness_scores)]

\* _roulette_selection with pick = random.uniform(0, total_fitness); the
\* "+ 1" is 1.0, that is 100 fitness units.
RECURSIVE RouletteFrom(_, _, _, _)
RouletteFrom(i, current, adjusted_fitness, pick) ==
    IF i > Len(adjusted_fitness) THEN Len(adjusted_fitness)
    ELSE IF current + adjusted_fitness[i] >= pick THEN i
    ELSE RouletteFrom(i + 1, current + adjusted_fitness[i], adjusted_fitness, pick)

\* Mutant: the fitnesses taken as weights without the shift.
AdjustedFitnessUnshifted(fitness_scores) == fitness_scores

AdjustedFitness(fitness_scores) ==
    [i \in 1..Len(fitness_scores) |-> fitness_scores[i] - MinSeq(fitness_scores) + 100]

RouletteSelection(population, fitness_scores, r) ==
    LET adjusted_fitness == AdjustedFitness(fitness_scores)
        total_fitness == SumSeq(adjusted_fitness)
        pick == Uniform(0, total_fitness, r)
    IN  IF total_fitness = 0
        THEN population[1 + (r % Len(population))]
        ELSE population[RouletteFrom(1, 0, adjusted_fitness, pick)]

SelectParent(population, fitness_scores, draw) ==
    IF SELECTION_METHOD = "tournament"
    THEN TournamentSelection(population, fitness_scores, draw.sample)
    ELSE RouletteSelection(population, fitness_scores, draw.r)

\* Mutant: the motor boundary drawn from 0 on.
CrossoverPointsFromZero == 0..(MOTOR_COUNT - 1)

\* random.randint(1, MOTOR_COUNT - 1): both ends included.
CrossoverPoints == 1..(MOTOR_COUNT - 1)

\* _crossover with the drawn motor boundary.
Crossover(parent1, parent2, point) ==
    LET crossover_point == point * GENES_PER_MOTOR
    IN  [child1 |-> SubSeq(parent1, 1, crossover_point)
                    \o SubSeq(parent2, crossover_point + 1, Len(parent2)),
         child2 |-> SubSeq(parent2, 1, crossover_point)
                    \o SubSeq(parent1, crossover_point + 1, Len(parent1)),
         crossover_point |-> crossover_point]

\* random.random() < rate, for random() = r / RandomSteps and a rate in
\* thousandths.
RandomBelow(r, rate) == r * 1000 < rate * RandomSteps

\* random.gauss(0, sigma): 0 when sigma is 0, else the drawn value.
Gauss(sigma, z) == IF sigma = 0 THEN 0 ELSE z

\* One gene of _mutate: amplitude and frequency are clamped, phase wraps.
MutateGene(p, x, strength, z) ==
    IF GeneType(p) = 0
    THEN Max2(AMPLITUDE_MIN,
              Min2(AMPLITUDE_MAX,
                   FAdd(x, Gauss(strength * (AMPLITUDE_MAX - AMPLITUDE_MIN), z))))
    ELSE IF GeneType(p) = 1
    THEN Max2(FREQUENCY_MIN,
              Min2(FREQUENCY_MAX,
                   FAdd(x, Gauss(strength * (FREQUENCY_MAX - FREQUENCY_MIN), z))))
    ELSE PyMod(FAdd(x, Gauss(strength * (PHASE_MAX - PHASE_MIN), z)), PHASE_MAX)

\* _mutate: draw.r[p] is the random() of gene p, draw.z[p] its gauss().
Mutate(genes, rate, strength, draw) ==
    [p \in 1..Len(genes) |->
        IF RandomBelow(draw.r[p], rate)
        THEN MutateGene(p, genes[p], strength, draw.z[p])
        ELSE genes[p]]
\* Mutant: the loop of evolve appending both children without looking at
\* the size reached.
RECURSIVE BreedBothChildren(_, _, _, _, _)
BreedBothChildren(new_population, sorted_population, sorted_fitness, g, draws) ==
    IF Len(new_population) >= POPULATION_SIZE THEN new_population
    ELSE LET d == Head(draws)
             parent1 == SelectParent(sorted_population, sorted_fitness, d.select1)
             parent2 == SelectParent(sorted_population, sorted_fitness, d.select2)
             child1 == Mutate(parent1, g.current_mutation_rate,
                              g.current_mutation_strength, d.mut1)
             child2 == Mutate(parent2, g.current_mutation_rate,
                              g.current_mutation_strength, d.mut2)
         IN  BreedBothChildren(Append(Append(new_population, child1), child2),
                               sorted_population, sorted_fitness, g, Tail(draws))

\* The while loop of evolve; draws[1] holds the random draws of the next
\* iteration.
RECURSIVE Breed(_, _, _, _, _)
Breed(new_population, sorted_population, sorted_fitness, g, draws) ==
    IF Len(new_population) >= POPULATION_SIZE THEN new_population
    ELSE LET d == Head(draws)
             parent1 == SelectParent(sorted_population, sorted_fitness, d.select1)
             parent2 == SelectParent(sorted_population, sorted_fitness, d.select2)
             crossed == IF RandomBelow(d.r, CROSSOVER_RATE)
                        THEN Crossover(parent1, parent2, d.point)
                        ELSE [child1 |-> parent1, child2 |-> parent2,
                              crossover_point |-> 0]
             child1 == Mutate(crossed.child1, g.current_mutation_rate,
                              g.current_mutation_strength, d.mut1)
             child2 == Mutate(crossed.child2, g.current_mutation_rate,
                              g.current_mutation_strength, d.mut2)
             appended == Append(new_population, child1)
         IN  Breed(IF Len(appended) < POPULATION_SIZE
                   THEN Append(appended, child2) ELSE appended,
                   sorted_population, sorted_fitness, g, Tail(draws))

\* A variant of evolve that breeds with the mutation parameters it was
\* entered with and adopts the new ones only for the next call.
EvolveWithStaleMutation(g, population, fitness_scores, draws) ==
    IF Len(fitness_scores) = 0
    THEN [raised |-> "ValueError", population |-> <<>>,
          ga |-> [g EXCEPT !.generation = @ + 1]]
    ELSE
    LET diversity == CalculateDiversity(population)
        g1 == [g EXCEPT !.generation = @ + 1,
                        !.best_fitness_history = Append(@, MaxSeq(fitness_scores)),
                        !.avg_fitness_history =
                            Append(@, FDiv(SumSeq(fitness_scores), Len(fitness_scores))),
                        !.diversity_history = Append(@, diversity)]
        sorted_pairs == SortedPairs(fitness_scores, population)
        sorted_population == [i \in 1..Len(sorted_pairs) |-> sorted_pairs[i].genes]
        sorted_fitness == [i \in 1..Len(sorted_pairs) |-> sorted_pairs[i].fit]
    IN  IF EliteCount > Len(sorted_population)
        THEN [raised |-> "IndexError", population |-> <<>>,
              ga |-> UpdateAdaptiveMutation(g1, diversity)]
        ELSE [raised |-> "", ga |-> UpdateAdaptiveMutation(g1, diversity),
              population |-> Breed(SubSeq(sorted_population, 1, EliteCount),
                                   sorted_population, sorted_fitness, g1, draws)]

\* evolve.  raised names the exception the call ends with, "" for none.
Evolve(g, population, fitness_scores, draws) ==
    IF Len(fitness_scores) = 0
    THEN [raised |-> "ValueError", population |-> <<>>,
          ga |-> [g EXCEPT !.generation = @ + 1]]
    ELSE
    LET best_fitness == MaxSeq(fitness_scores)
        avg_fitness == FDiv(SumSeq(fitness_scores), Len(fitness_scores))
        diversity == CalculateDiversity(population)
        g1 == [g EXCEPT !.generation = @ + 1,
                        !.best_fitness_history = Append(@, best_fitness),
                        !.avg_fitness_history = Append(@, avg_fitness),
                        !.diversity_history = Append(@, diversity)]
        g2 == UpdateAdaptiveMutation(g1, diversity)
        sorted_pairs == SortedPairs(fitness_scores, population)
        sorted_population == [i \in 1..Len(sorted_pairs) |-> sorted_pairs[i].genes]
        sorted_fitness == [i \in 1..Len(sorted_pairs) |-> sorted_pairs[i].fit]
    IN  IF EliteCount > Len(sorted_population)
        THEN [raised |-> "IndexError", population |-> <<>>, ga |-> g2]
        ELSE [raised |-> "", ga |-> g2,
              population |-> Breed(SubSeq(sorted_population, 1, EliteCount),
                                   sorted_population, sorted_fitness, g2, draws)]

(***************************************************************************)
(* The random draws the model enumerates.                                  *)
(***************************************************************************)
NoHit == RandomSteps - 1

\* A draw of _mutate that hits the positions in hits, each with noise z.
MutationDraw(hits, z) ==
    [r |-> [p \in 1..GENE_COUNT |-> IF p \in hits THEN 0 ELSE NoHit],
     z |-> [p \in 1..GENE_COUNT |-> z]]

\* The draws of one iteration of evolve's loop over a sorted population of n.
EvolveDraws(n) ==
    LET k == Min2(TOURNAMENT_SIZE, n)
        low == [i \in 1..k |-> i]
        high == [i \in 1..k |-> n + 1 - i]
    IN  { [select1 |-> [sample |-> low, r |-> 0],
           select2 |-> [sample |-> high, r |-> NoHit],
           r |-> 0, point |-> 1,
           mut1 |-> MutationDraw({}, 0), mut2 |-> MutationDraw({}, 0)],
          [select1 |-> [sample |-> high, r |-> 1],
           select2 |-> [sample |-> low, r |-> 0],
           r |-> NoHit, point |-> 1,
           mut1 |-> MutationDraw({1, 2, 3}, 1), mut2 |-> MutationDraw({}, 0)],
          [select1 |-> [sample |-> high, r |-> 0],
           select2 |-> [sample |-> high, r |-> 1],
           r |-> 0, point |-> MOTOR_COUNT - 1,
           mut1 |-> MutationDraw({}, 0),
           mut2 |-> MutationDraw(1..GENE_COUNT, -(2 * PHASE_MAX))] }

\* The fitness arrays the model enumerates for a population of n.
FitnessPatterns == 0..5
FitnessPattern(q, i, n) ==
    CASE q = 0 -> 0
      [] q = 1 -> i * 100
      [] q = 2 -> (n - i) * 100
      [] q = 3 -> (i % 2) * 250
      [] q = 4 -> ((2 * i) % n) * 50
      [] OTHER -> IF i = n THEN 0 ELSE 300
FitnessVectors(n) == {[i \in 1..n |-> FitnessPattern(q, i, n)] : q \in FitnessPatterns}

\* The number of iterations of evolve's loop.
LoopCount == (POPULATION_SIZE - EliteCount + 1) \div 2

NoCall == [called |-> FALSE]
\* No Simulation has been constructed.
NoSimulation == [is_running |-> FALSE]

(***************************************************************************)
(* SpecEvolve: a GeneticAlgorithm is constructed, creates its initial      *)
(* population and is evolved.                                              *)
(***************************************************************************)
InitEvolve ==
    /\ ga = GeneticAlgorithmInit
    /\ \E seed \in 0..MaxSeed : population_genes = CreateInitialPopulation(seed)
    /\ evolveCall = NoCall
    /\ fnCall = NoCall
    /\ creatures = <<>>
    /\ sim = NoSimulation
    /\ pc = "none"
    /\ hist = NoCall
    /\ config = ConfigDefaults

EvolveStep ==
    /\ ga.generation < MaxGenerations
    /\ \E fitness_scores \in FitnessVectors(Len(population_genes)) :
       \E draws \in [1..LoopCount -> EvolveDraws(Len(population_genes))] :
          LET res == Evolve(ga, population_genes, fitness_scores, draws)
          IN  /\ ga' = res.ga
              /\ population_genes' =
                    IF res.raised = "" THEN res.population ELSE population_genes
              /\ evolveCall' = [called |-> TRUE,
                                population |-> population_genes,
                                fitness_scores |-> fitness_scores,
                                draws |-> draws,
                                raised |-> res.raised,
                                result |-> res.population]
    /\ UNCHANGED <<fnCall, simVars, config>>

NextEvolve == EvolveStep

SpecEvolve == InitEvolve /\ [][NextEvolve]_vars
(***************************************************************************)
(* SpecMutate: _mutate applied in succession to a genome of the initial    *)
(* population.                                                             *)
(***************************************************************************)
\* The gauss() values drawn for a gene of value x: one that brings the sum
\* just below zero, a small step, and one far beyond either end of the range.
NoiseFor(x) == {-(x + 1), 1, 2 * PHASE_MAX + 1, -(2 * PHASE_MAX)}

\* The positions a single-gene draw may hit.
MutatePositions == {1, 2, 3, GENE_COUNT}

MutationDraws(genes) ==
    {MutationDraw({}, 0)}
    \cup {MutationDraw({p}, z) : p \in MutatePositions, z \in NoiseFor(genes[1])}
    \cup {MutationDraw({p}, -(genes[p] + 1)) : p \in MutatePositions}
    \cup {[r |-> [p \in 1..GENE_COUNT |-> 0],
           z |-> [p \in 1..GENE_COUNT |-> -(genes[p] + 1)]]}

InitMutate == InitEvolve

MutateStep ==
    /\ \E genes \in IF fnCall.called THEN {fnCall.result}
                    ELSE {population_genes[1], population_genes[Len(population_genes)]} :
       \E draw \in MutationDraws(genes) :
          /\ (IF fnCall.called THEN fnCall.count ELSE 0) < MaxMutations
          /\ fnCall' = [called |-> TRUE, op |-> "_mutate",
                        genes |-> genes, draw |-> draw,
                        count |-> (IF fnCall.called THEN fnCall.count ELSE 0) + 1,
                        result |-> Mutate(genes, ga.current_mutation_rate,
                                          ga.current_mutation_strength, draw)]
    /\ UNCHANGED <<gaVars, simVars, config>>

NextMutate == MutateStep

SpecMutate == InitMutate /\ [][NextMutate]_vars

(***************************************************************************)
(* SpecCrossover: _crossover applied to two genomes of the initial         *)
(* population.                                                             *)
(***************************************************************************)
InitCrossover == InitEvolve

CrossoverStep ==
    /\ \E i, j \in 1..Len(population_genes) :
       \E point \in CrossoverPoints :
          fnCall' = [called |-> TRUE, op |-> "_crossover",
                     parent1 |-> population_genes[i],
                     parent2 |-> population_genes[j],
                     result |-> Crossover(population_genes[i], population_genes[j], point)]
    /\ UNCHANGED <<gaVars, simVars, config>>

NextCrossover == CrossoverStep

SpecCrossover == InitCrossover /\ [][NextCrossover]_vars

(***************************************************************************)
(* Claims about the GeneticAlgorithm.                                      *)
(***************************************************************************)
\* The number of inputs ranked before input i: those of higher fitness, and
\* those of equal fitness that come earlier.
RankOf(fitness_scores, i) ==
    Cardinality({j \in 1..Len(fitness_scores) :
                    \/ fitness_scores[j] > fitness_scores[i]
                    \/ (fitness_scores[j] = fitness_scores[i] /\ j < i)})

ParallelCall ==
    /\ evolveCall.called
    /\ Len(evolveCall.population) = Len(evolveCall.fitness_scores)

C2_Elitism ==
    ParallelCall =>
        LET n == Len(evolveCall.population)
            e == Max2(1, (n * ELITE_RATIO_PCT) \div 100)
        IN  \A k \in 1..e :
               \E i \in 1..n :
                  /\ RankOf(evolveCall.fitness_scores, i) = k - 1
                  /\ evolveCall.result[k] = evolveCall.population[i]

\* C2 witness: two different genomes tie for the highest fitness, every
\* gene of the second child is hit by mutation, and the two elites are the
\* tied genomes in their original order.
C2_Witness ==
    /\ ParallelCall
    /\ \E i, j \in 1..Len(evolveCall.population) :
          /\ i < j
          /\ RankOf(evolveCall.fitness_scores, i) = 0
          /\ RankOf(evolveCall.fitness_scores, j) = 1
          /\ evolveCall.fitness_scores[i] = evolveCall.fitness_scores[j]
          /\ evolveCall.population[i] # evolveCall.population[j]
          /\ evolveCall.result[1] = evolveCall.population[i]
          /\ evolveCall.result[2] = evolveCall.population[j]
    /\ \E d \in 1..Len(evolveCall.draws) :
          \A p \in 1..GENE_COUNT : evolveCall.draws[d].mut2.r[p] = 0

InRange(x, lo, hi) == lo <= x /\ x <= hi

\* C3: every gene of a genome returned by _mutate is in its range:
\* amplitude in [AMPLITUDE_MIN, AMPLITUDE_MAX], frequency in
\* [FREQUENCY_MIN, FREQUENCY_MAX], phase in [0, PHASE_MAX).
C3_MutateInRange ==
    (fnCall.called /\ fnCall.op = "_mutate") =>
        \A p \in 1..Len(fnCall.result) :
            CASE GeneType(p) = 0 ->
                    InRange(fnCall.result[p], AMPLITUDE_MIN, AMPLITUDE_MAX)
              [] GeneType(p) = 1 ->
                    InRange(fnCall.result[p], FREQUENCY_MIN, FREQUENCY_MAX)
              [] OTHER ->
                    0 <= fnCall.result[p] /\ fnCall.result[p] < PHASE_MAX

\* C4: _crossover returns two children of the parents' length 3 x
\* MOTOR_COUNT; the cut is a multiple of 3 between 3 and 3 x (MOTOR_COUNT - 1);
\* child 1 is parent 1 before the cut and parent 2 after it, child 2 the mirror.
C4_Crossover ==
    (fnCall.called /\ fnCall.op = "_crossover") =>
        LET cut == fnCall.result.crossover_point
            c1 == fnCall.result.child1
            c2 == fnCall.result.child2
        IN  /\ Len(fnCall.parent1) = 3 * MOTOR_COUNT
            /\ Len(c1) = 3 * MOTOR_COUNT
            /\ Len(c2) = 3 * MOTOR_COUNT
            /\ cut % 3 = 0
            /\ 3 <= cut /\ cut <= 3 * (MOTOR_COUNT - 1)
            /\ \A p \in 1..(3 * MOTOR_COUNT) :
                  /\ c1[p] = IF p <= cut THEN fnCall.parent1[p] ELSE fnCall.parent2[p]
                  /\ c2[p] = IF p <= cut THEN fnCall.parent2[p] ELSE fnCall.parent1[p]

\* C4 witness: a cut at the last allowed boundary whose children differ
\* from both parents.
C4_Witness ==
    /\ fnCall.called /\ fnCall.op = "_crossover"
    /\ fnCall.result.crossover_point = 3 * (MOTOR_COUNT - 1)
    /\ fnCall.result.child1 # fnCall.parent1
    /\ fnCall.result.child1 # fnCall.parent2
    /\ fnCall.result.child2 # fnCall.result.child1

(***************************************************************************)
(* Creature                                                                *)
(*                                                                         *)
(* A creature is a record of the object's fields.  Its field body is what  *)
(* the creature reads from its pymunk bodies: the torso's position, angle  *)
(* and angular velocity and the feet's x positions.  time_alive and the    *)
(* simulation's current_time count frames of dt = 1 / FPS.                 *)
(***************************************************************************)
\* pi / 2 and 2 * pi, in thousandths of a radian.
HALF_PI == 1571
TWO_PI == 6283

\* A gene as thousandths.
Milli(g) == FDiv(g, 200)

\* math.cos of an angle given in thousandths of a turn, in thousandths: the
\* cosine is replaced by the triangle wave through its extremes and zeros.
Cos(turns) ==
    LET a == turns % 1000
    IN  IF a <= 500 THEN 1000 - 4 * a ELSE 4 * a - 3000

\* The pairs of feet _update_step_counter compares.
Pairs ==
    IF CREATURE_TYPE = "QUADRUPED"
    THEN << [key |-> "front", left |-> "front_left_foot", right |-> "front_right_foot"],
            [key |-> "back", left |-> "back_left_foot", right |-> "back_right_foot"] >>
    ELSE << [key |-> "biped", left |-> "left_foot", right |-> "right_foot"] >>
PairKeys == {Pairs[k].key : k \in 1..Len(Pairs)}
FootNames == {Pairs[k].left : k \in 1..Len(Pairs)} \cup {Pairs[k].right : k \in 1..Len(Pairs)}

\* The x position of each foot when the body is created around x.
CreateFeet(x) ==
    IF CREATURE_TYPE = "QUADRUPED"
    THEN LET offset_x == TORSO_WIDTH \div 2 - 10
         IN  [n \in FootNames |->
                CASE n = "back_left_foot" -> x - offset_x - QUADRUPED_LEG_X_OFFSET
                  [] n = "back_right_foot" -> x - offset_x + QUADRUPED_LEG_X_OFFSET
                  [] n = "front_left_foot" -> x + offset_x - QUADRUPED_LEG_X_OFFSET
                  [] OTHER -> x + offset_x + QUADRUPED_LEG_X_OFFSET]
    ELSE [n \in FootNames |->
            IF n = "left_foot" THEN x - TORSO_WIDTH \div 4 ELSE x + TORSO_WIDTH \div 4]

CreateBody(start_x, start_y) ==
    [x |-> start_x, y |-> start_y + TORSO_HEIGHT \div 2,
     angle |-> 0, angular_velocity |-> 0, foot_x |-> CreateFeet(start_x)]

\* The legs in the order _create_body creates them, with the names of
\* their parts in named_parts.
QuadrupedLegs ==
    << [thigh |-> "back_left_thigh", shin |-> "back_left_shin",
        foot |-> "back_left_foot"],
       [thigh |-> "back_right_thigh", shin |-> "back_right_shin",
        foot |-> "back_right_foot"],
       [thigh |-> "front_left_thigh", shin |-> "front_left_shin",
        foot |-> "front_left_foot"],
       [thigh |-> "front_right_thigh", shin |-> "front_right_shin",
        foot |-> "front_right_foot"] >>
BipedLegs ==
    << [thigh |-> "left_thigh", shin |-> "left_shin", foot |-> "left_foot"],
       [thigh |-> "right_thigh", shin |-> "right_shin", foot |-> "right_foot"] >>

\* _create_body under a value of CREATURE_TYPE: the quadruped body for
\* 'QUADRUPED', the biped body for any other value.
CreateBodyLegs(creature_type) ==
    IF creature_type = "QUADRUPED" THEN QuadrupedLegs ELSE BipedLegs

Legs == CreateBodyLegs(CREATURE_TYPE)

\* A pymunk constraint between two bodies.
Constraint(kind, body_a, body_b) == [kind |-> kind, a |-> body_a, b |-> body_b]

\* The content of a pymunk Space after _create_physics_space and _add_ground:
\* a body or a shape is the name of its part.
GroundSpace == [bodies |-> {"ground"}, shapes |-> {"ground"}, constraints |-> {}]

RECURSIVE Flatten(_)
Flatten(ss) == IF ss = <<>> THEN <<>> ELSE Head(ss) \o Flatten(Tail(ss))

\* The lists _create_box_body and _create_motor_joint and
\* _create_fixed_joint append to while _create_body runs.
BodyParts ==
    <<"torso">> \o Flatten([k \in 1..Len(Legs) |->
                                <<Legs[k].thigh, Legs[k].shin, Legs[k].foot>>])
PivotJoints ==
    Flatten([k \in 1..Len(Legs) |->
                << Constraint("PivotJoint", "torso", Legs[k].thigh),
                   Constraint("PivotJoint", Legs[k].thigh, Legs[k].shin),
                   Constraint("PivotJoint", Legs[k].shin, Legs[k].foot) >>])
RotaryLimitJoints ==
    Flatten([k \in 1..Len(Legs) |->
                << Constraint("RotaryLimitJoint", "torso", Legs[k].thigh),
                   Constraint("RotaryLimitJoint", Legs[k].thigh, Legs[k].shin) >>])
Motors ==
    Flatten([k \in 1..Len(Legs) |->
                << Constraint("SimpleMotor", "torso", Legs[k].thigh),
                   Constraint("SimpleMotor", Legs[k].thigh, Legs[k].shin) >>])
\* The gear joints of _create_fixed_joint, which are added to the space and
\* appended to no list.
GearJoints == {Constraint("GearJoint", Legs[k].shin, Legs[k].foot) : k \in 1..Len(Legs)}

Range(s) == {s[i] : i \in 1..Len(s)}

\* The space after _create_body has added the creature's objects to it.
SpaceWithBody(space) ==
    [bodies |-> space.bodies \cup Range(BodyParts),
     shapes |-> space.shapes \cup Range(BodyParts),
     constraints |-> space.constraints \cup Range(PivotJoints)
                     \cup Range(RotaryLimitJoints) \cup Range(Motors) \cup GearJoints]

Creature(space, start_x, start_y, genes, creature_id) ==
    [creature_id |-> creature_id,
     space |-> SpaceWithBody(space),
     bodies |-> BodyParts,
     shapes |-> BodyParts,
     pivot_joints |-> PivotJoints,
     rotary_limit_joints |-> RotaryLimitJoints,
     genes |-> genes,
     is_alive |-> TRUE,
     time_alive |-> 0,
     fitness |-> 0,
     fell_down |-> FALSE,
     height_sum |-> 0,
     stability_sum |-> 0,
     update_count |-> 0,
     upright_distance |-> 0,
     last_x |-> start_x,
     energy_used |-> 0,
     upright_frames |-> 0,
     step_count |-> 0,
     last_leg_delta_sign |-> [k \in PairKeys |-> 0],   \* 0: the key is absent
     motors |-> [i \in 1..Len(Motors) |-> 0],          \* each motor's rate
     body |-> CreateBody(start_x, start_y)]

IsUpright(c) ==
    LET height_ok == c.body.y > UPRIGHT_HEIGHT_THRESHOLD
        angle_ok == Abs(c.body.angle) < UPRIGHT_ANGLE_THRESHOLD
    IN  height_ok /\ angle_ok

CalculateReflexCorrection(c) ==
    IF ~REFLEX_ENABLED THEN [hip |-> 0, knee |-> 0]
    ELSE
    LET torso_angle == c.body.angle
        tilted == Abs(torso_angle) > REFLEX_BALANCE_THRESHOLD
        balance == FDiv(torso_angle * REFLEX_BALANCE_GAIN, 1000)
        hip == IF tilted THEN -balance ELSE 0
        knee == IF tilted /\ CREATURE_TYPE = "BIPED" THEN -FDiv(balance * 3, 10) ELSE 0
    IN  [hip |-> hip - FDiv(c.body.angular_velocity * REFLEX_VELOCITY_GAIN, 1000),
         knee |-> knee]

\* A variant of the step counter that records a sign only in a frame that
\* could count, so that a flip seen while not upright is counted later.
RECURSIVE StepCounterFromDeferred(_, _, _, _)
StepCounterFromDeferred(c, k, dx, is_upright) ==
    IF k > Len(Pairs) THEN c
    ELSE
    LET key == Pairs[k].key
        leg_delta == c.body.foot_x[Pairs[k].right] - c.body.foot_x[Pairs[k].left]
        sign == IF leg_delta > 0 THEN 1 ELSE -1
        last_sign == c.last_leg_delta_sign[key]
        stepped == last_sign # 0 /\ sign # last_sign /\ is_upright /\ dx > 0
    IN  IF Abs(leg_delta) < STEP_MIN_LEG_DELTA \/ (last_sign # 0 /\ ~(is_upright /\ dx > 0))
        THEN StepCounterFromDeferred(c, k + 1, dx, is_upright)
        ELSE StepCounterFromDeferred(
                [c EXCEPT !.last_leg_delta_sign[key] = sign,
                          !.step_count = IF stepped THEN @ + 1 ELSE @],
                k + 1, dx, is_upright)

\* _update_step_counter, from the k-th pair on.
RECURSIVE StepCounterFrom(_, _, _, _)
StepCounterFrom(c, k, dx, is_upright) ==
    IF k > Len(Pairs) THEN c
    ELSE
    LET key == Pairs[k].key
        leg_delta == c.body.foot_x[Pairs[k].right] - c.body.foot_x[Pairs[k].left]
        sign == IF leg_delta > 0 THEN 1 ELSE -1
        last_sign == c.last_leg_delta_sign[key]
        stepped == last_sign # 0 /\ sign # last_sign /\ is_upright /\ dx > 0
    IN  IF Abs(leg_delta) < STEP_MIN_LEG_DELTA
        THEN StepCounterFrom(c, k + 1, dx, is_upright)
        ELSE StepCounterFrom(
                [c EXCEPT !.last_leg_delta_sign[key] = sign,
                          !.step_count = IF stepped THEN @ + 1 ELSE @],
                k + 1, dx, is_upright)

UpdateStepCounter(c, dx, is_upright) == StepCounterFrom(c, 1, dx, is_upright)

\* _calculate_fitness without its final clamp, in hundredths.
FitnessSum(c) ==
    LET distance_score == FDiv(c.upright_distance * FITNESS_DISTANCE_WEIGHT, 10)
        upright_score == FDiv(c.upright_frames * FITNESS_UPRIGHT_WEIGHT, 100)
        step_score == FDiv(c.step_count * FITNESS_STEP_REWARD, 10)
        fall_penalty == IF c.fell_down THEN FDiv(FITNESS_FALL_PENALTY, 10) ELSE 0
        energy_penalty ==
            IF FITNESS_ENERGY_PENALTY > 0 /\ c.update_count > 0
            THEN FDiv(FDiv(c.energy_used, c.update_count) * FITNESS_ENERGY_PENALTY, 10000)
            ELSE 0
    IN  distance_score + upright_score + step_score - fall_penalty - energy_penalty

\* A variant of _calculate_fitness that leaves a negative sum as it is.
CalculateFitnessUnclamped(c) == [c EXCEPT !.fitness = FitnessSum(c)]

CalculateFitness(c) ==
    [c EXCEPT !.fitness = IF FitnessSum(c) < 0 THEN 0 ELSE FitnessSum(c)]

IsHip(i) ==
    IF CREATURE_TYPE = "QUADRUPED" THEN i % 2 = 0 ELSE i \in {0, 2}

\* The rate update gives motor i (counted from 0) at current_time.
MotorRate(c, i, current_time) ==
    LET gene_base == i * GENES_PER_MOTOR
        amplitude == Milli(c.genes[gene_base + 1])
        frequency == Milli(IF SHARED_FREQUENCY THEN c.genes[2] ELSE c.genes[gene_base + 2])
        phase == Milli(c.genes[gene_base + 3])
        turns == FDiv(frequency * current_time, FPS) + FDiv(phase * 1000, TWO_PI)
        target_rate == FDiv(FDiv(amplitude * frequency, 1000) * Cos(turns), 1000)
        correction == CalculateReflexCorrection(c)
    IN  (target_rate + (IF IsHip(i) THEN correction.hip ELSE correction.knee)) * 3

\* update, for a creature that is alive.
\* A variant of the credit that counts the displacement of an upright frame
\* whatever its sign.
CreditedDistanceSigned(is_upright, dx) == IF is_upright THEN dx ELSE 0

\* What update adds to upright_distance in one frame: dx, when the creature
\* is upright and dx > 0.
CreditedDistance(is_upright, dx) == IF is_upright /\ dx > 0 THEN dx ELSE 0

UpdateAlive(c, dt, current_time) ==
    LET rates == [i \in 1..Len(c.motors) |-> MotorRate(c, i - 1, current_time)]
        frame_energy == SumSeq([i \in 1..Len(c.motors) |-> Abs(rates[i])])
        stability == Max2(0, 1000 - FDiv(Abs(c.body.angle) * 1000, HALF_PI))
        current_x == c.body.x
        dx == current_x - c.last_x
        is_upright == IsUpright(c)
        c1 == [c EXCEPT !.time_alive = @ + dt,
                        !.update_count = @ + 1,
                        !.motors = rates,
                        !.energy_used = @ + frame_energy,
                        !.height_sum = @ + c.body.y,
                        !.stability_sum = @ + stability,
                        !.upright_frames = IF is_upright THEN @ + 1 ELSE @,
                        !.upright_distance = @ + CreditedDistance(is_upright, dx)]
        c2 == UpdateStepCounter(c1, dx, is_upright)
    IN  CalculateFitness([c2 EXCEPT !.last_x = current_x])

\* A variant of update without the early return for a dead creature.
UpdateAlways(c, dt, current_time) == UpdateAlive(c, dt, current_time)

\* update reads the genes of motor i at i * GENES_PER_MOTOR and the two
\* places after it: a list with fewer genes than that raises IndexError.
UpdateRaised(c) ==
    IF c.is_alive /\ Len(c.genes) < GENES_PER_MOTOR * Len(c.motors)
    THEN "IndexError" ELSE ""

\* update as far as it gets before it raises: the counters are advanced and
\* the motors whose genes are there have their rates.
UpdateInterrupted(c, dt, current_time) ==
    [c EXCEPT !.time_alive = @ + dt,
              !.update_count = @ + 1,
              !.motors = [i \in 1..Len(c.motors) |->
                            IF GENES_PER_MOTOR * i <= Len(c.genes)
                            THEN MotorRate(c, i - 1, current_time)
                            ELSE c.motors[i]]]

Update(c, dt, current_time) ==
    IF ~c.is_alive THEN c
    ELSE IF UpdateRaised(c) # "" THEN UpdateInterrupted(c, dt, current_time)
    ELSE UpdateAlive(c, dt, current_time)

\* check_death's time-limit branch: the result is the creature and the
\* value returned.
ExpiredAsFall(c) ==
    [creature |-> CalculateFitness([c EXCEPT !.is_alive = FALSE, !.fell_down = TRUE]),
     ret |-> TRUE]

Expired(c) ==
    [creature |-> CalculateFitness([c EXCEPT !.is_alive = FALSE]), ret |-> TRUE]

\* check_death's three fall branches.
FellWithoutRecalculation(c) ==
    [creature |-> [c EXCEPT !.is_alive = FALSE, !.fell_down = TRUE], ret |-> TRUE]

Fell(c) ==
    [creature |-> CalculateFitness([c EXCEPT !.is_alive = FALSE, !.fell_down = TRUE]),
     ret |-> TRUE]

\* A variant of check_death without the time-limit branch.
CheckDeathWithoutTimeLimit(c, ground_y) ==
    IF ~c.is_alive THEN [creature |-> c, ret |-> TRUE]
    ELSE IF TORSO_TOUCH_GROUND_DEATH /\ 2 * c.body.y - TORSO_HEIGHT <= 2 * (ground_y + 5)
    THEN Fell(c)
    ELSE IF Abs(c.body.angle) > TORSO_ANGLE_DEATH_THRESHOLD THEN Fell(c)
    ELSE IF c.body.y < TORSO_HEIGHT_DEATH_THRESHOLD THEN Fell(c)
    ELSE [creature |-> c, ret |-> FALSE]

CheckDeath(c, ground_y) ==
    IF ~c.is_alive THEN [creature |-> c, ret |-> TRUE]
    ELSE IF c.time_alive >= SIMULATION_TIME THEN Expired(c)
    ELSE IF TORSO_TOUCH_GROUND_DEATH /\ 2 * c.body.y - TORSO_HEIGHT <= 2 * (ground_y + 5)
    THEN Fell(c)
    ELSE IF Abs(c.body.angle) > TORSO_ANGLE_DEATH_THRESHOLD THEN Fell(c)
    ELSE IF c.body.y < TORSO_HEIGHT_DEATH_THRESHOLD THEN Fell(c)
    ELSE [creature |-> c, ret |-> FALSE]

(***************************************************************************)
(* The physics.  space.step moves the bodies; the model lets a step leave  *)
(* a creature's body in any of a few postures.                             *)
(***************************************************************************)
\* A posture: the torso at (x, y) with the given angle and angular velocity,
\* the right foot of the k-th pair ahead of the left one by deltas[k].
Posture(x, y, angle, angular_velocity, deltas) ==
    [x |-> x, y |-> y, angle |-> angle, angular_velocity |-> angular_velocity,
     foot_x |-> [n \in FootNames |->
                   LET k == CHOOSE j \in 1..Len(Pairs) : n \in {Pairs[j].left, Pairs[j].right}
                   IN  IF n = Pairs[k].left THEN x ELSE x + deltas[k]]]

START_X == 100
START_Y == THIGH_LENGTH + SHIN_LENGTH + FOOT_HEIGHT + 20

Standing == CreateBody(START_X, START_Y)
StrideLeft == Posture(150, 108, 50, 100, <<-16, 16>>)
StrideRight == Posture(200, 105, -200, -100, <<16, -16>>)
Crouching == Posture(180, 45, 400, 0, <<5, 16>>)
OnGround == Posture(160, 12, 0, 0, <<16, 16>>)
Tilted == Posture(170, 100, 1000, 300, <<16, 16>>)
Sagging == Posture(190, 30, 100, 0, <<16, 16>>)

Postures == {Standing, StrideLeft, StrideRight, Crouching, OnGround, Tilted, Sagging}

(***************************************************************************)
(* SpecCreature: one creature of the initial population; its space is      *)
(* stepped and its update and check_death are called in any order.         *)
(***************************************************************************)
NoCreatureCall ==
    [called |-> FALSE, op |-> "none", alive |-> TRUE, ret |-> FALSE,
     checks |-> 0, unsafe |-> FALSE, raised |-> ""]

\* The torso touches ground level, is tilted beyond the death threshold or
\* is below the height death threshold.
Unsafe(body) ==
    \/ 2 * body.y - TORSO_HEIGHT <= 2 * 5
    \/ Abs(body.angle) > TORSO_ANGLE_DEATH_THRESHOLD
    \/ body.y < TORSO_HEIGHT_DEATH_THRESHOLD

InitCreature ==
    /\ ga = GeneticAlgorithmInit
    /\ \E seed \in 0..MaxSeed : population_genes = CreateInitialPopulation(seed)
    /\ evolveCall = NoCall
    /\ fnCall = NoCall
    /\ creatures = <<Creature(GroundSpace, START_X, START_Y, population_genes[1], 0)>>
    /\ sim = NoSimulation
    /\ pc = "none"
    /\ hist = NoCreatureCall
    /\ config = ConfigDefaults

SpaceStep ==
    /\ creatures # <<>>
    /\ \E body \in Postures :
          /\ creatures' = [creatures EXCEPT ![1].body = body]
          /\ hist' = [hist EXCEPT !.called = TRUE, !.op = "step",
                                  !.alive = creatures[1].is_alive,
                                  !.raised = "",
                                  !.unsafe = @ \/ Unsafe(body)]
    /\ UNCHANGED <<gaVars, fnCall, sim, pc, config>>

\* A living creature is updated until it has lived the trial's duration.
UpdateCall ==
    /\ creatures # <<>>
    /\ ~creatures[1].is_alive \/ creatures[1].time_alive < SIMULATION_TIME
    /\ creatures' = [creatures EXCEPT
                        ![1] = Update(@, 1, creatures[1].time_alive + 1)]
    /\ hist' = [hist EXCEPT !.called = TRUE, !.op = "update",
                            !.alive = creatures[1].is_alive,
                            !.raised = UpdateRaised(creatures[1])]
    /\ UNCHANGED <<gaVars, fnCall, sim, pc, config>>

CheckDeathCall ==
    /\ creatures # <<>>
    /\ LET res == CheckDeath(creatures[1], 0)
       IN  /\ creatures' = [creatures EXCEPT ![1] = res.creature]
           /\ hist' = [hist EXCEPT !.called = TRUE, !.op = "check_death",
                                   !.alive = creatures[1].is_alive,
                                   !.raised = "",
                                   !.ret = res.ret,
                                   !.checks = Min2(@ + 1, 2)]
    /\ UNCHANGED <<gaVars, fnCall, sim, pc, config>>

NextCreature == SpaceStep \/ UpdateCall \/ CheckDeathCall

SpecCreature == InitCreature /\ [][NextCreature]_vars

(***************************************************************************)
(* Claims about one Creature.                                              *)
(***************************************************************************)
\* The fields of a creature other than its genes and its body.
Frozen(c, d) ==
    /\ d.is_alive = c.is_alive
    /\ d.fitness = c.fitness
    /\ d.fell_down = c.fell_down
    /\ d.time_alive = c.time_alive
    /\ d.height_sum = c.height_sum
    /\ d.stability_sum = c.stability_sum
    /\ d.update_count = c.update_count
    /\ d.upright_distance = c.upright_distance
    /\ d.last_x = c.last_x
    /\ d.energy_used = c.energy_used
    /\ d.upright_frames = c.upright_frames
    /\ d.step_count = c.step_count
    /\ d.last_leg_delta_sign = c.last_leg_delta_sign
    /\ d.motors = c.motors

\* The fitness of the specification, in hundredths:
\*   max(0, 5 * uprightDistance + 0.1 * 0.1 * uprightFrames + 50 * stepCount
\*          - (200 if fell_down) - 0.01 * (energyUsed / updateCount))
\* where the energy term is absent while updateCount is 0.
ExpectedFitness(c) ==
    LET energy == IF c.update_count > 0
                  THEN FDiv(FDiv(c.energy_used, c.update_count) * 10, 10000)
                  ELSE 0
    IN  Max2(0, 500 * c.upright_distance + c.upright_frames + 5000 * c.step_count
                - (IF c.fell_down THEN 20000 ELSE 0) - energy)

\* C5: DEAD is absorbing and frozen.  Once a creature is dead, no step of its
\* space and no call of update or check_death makes it alive or changes its
\* fitness, fell_down, time_alive, accumulators, last-sign cache or motor
\* rates, and every check_death returns true.
C5_DeadIsFrozen ==
    [][ ~creatures[1].is_alive =>
           /\ ~creatures'[1].is_alive
           /\ Frozen(creatures[1], creatures'[1])
           /\ (hist'.op = "check_death" => hist'.ret) ]_vars

\* C5's case: update has been called on a creature that had fallen.
C5_Witness ==
    /\ ~creatures[1].is_alive
    /\ creatures[1].fell_down
    /\ creatures[1].update_count > 0
    /\ hist.op = "update"
    /\ ~hist.alive

\* C8: a creature whose torso was never at ground level, beyond the tilt
\* threshold or below the height threshold dies only of the time limit: once
\* dead it has lived the whole trial, fell_down is false and its fitness
\* carries no fall penalty.
C8_SafeCreatureDiesOfTime ==
    (~creatures[1].is_alive /\ ~hist.unsafe) =>
        /\ creatures[1].time_alive >= SIMULATION_TIME
        /\ ~creatures[1].fell_down
        /\ creatures[1].fitness = ExpectedFitness([creatures[1] EXCEPT !.fell_down = FALSE])

\* C8's case: check_death has just ended the trial of a creature that walked.
C8_Witness ==
    /\ ~creatures[1].is_alive
    /\ ~hist.unsafe
    /\ hist.op = "check_death"
    /\ hist.alive
    /\ creatures[1].step_count > 0
    /\ creatures[1].fitness > 0

\* The first check_death has just run, before the time limit, on a torso
\* below the height death threshold.
FirstCheckTooLow ==
    /\ hist.op = "check_death"
    /\ hist.checks = 1
    /\ creatures[1].time_alive < SIMULATION_TIME
    /\ creatures[1].body.y < TORSO_HEIGHT_DEATH_THRESHOLD

\* C9: a creature whose torso is below the height death threshold at its
\* first death check, before the time limit, is dead after that check with
\* fell_down true, and its fitness is the sum less the fall penalty, clamped
\* at 0 after the subtraction.
C9_LowTorsoFallsAtFirstCheck ==
    FirstCheckTooLow =>
        /\ ~creatures[1].is_alive
        /\ creatures[1].fell_down
        /\ hist.ret
        /\ creatures[1].fitness = ExpectedFitness([creatures[1] EXCEPT !.fell_down = TRUE])

\* C9's case, with a sum above the penalty: the penalty shows in a positive
\* fitness.
C9_Witness ==
    /\ FirstCheckTooLow
    /\ creatures[1].upright_distance > 0
    /\ creatures[1].fitness > 0
    /\ creatures[1].fitness < 500 * creatures[1].upright_distance

(***************************************************************************)
(* Simulation                                                              *)
(*                                                                         *)
(* pc is the position of run in its loop: "handle_events" at the top of an *)
(* iteration, "update" inside the loop over speed_multiplier, with         *)
(* sim.steps_left iterations to go, "check_complete" after it, "cleanup"   *)
(* once the loop has ended and "exited" after that.  The model follows the *)
(* simulation up to the creatures of generation MaxSimGenerations, where   *)
(* pc is "halted".                                                         *)
(***************************************************************************)
Events == {"NONE", "QUIT", "K_ESCAPE", "K_SPACE", "K_s", "K_n"}
\* The events that neither pause nor end the simulation.
RunningEvents == {"NONE", "K_s", "K_n"}

\* The creatures _init_generation creates for a population, each in a space
\* of its own, one for each i in range(config.POPULATION_SIZE);
\* population_genes[i] raises IndexError at the first i beyond the
\* population.
CreateCreatures(population) ==
    [i \in 1..Min2(config.POPULATION_SIZE, Len(population)) |->
        Creature(GroundSpace, START_X, START_Y, population[i], i - 1)]

CreateCreaturesRaised(population) ==
    IF config.POPULATION_SIZE > Len(population) THEN "IndexError" ELSE ""

SimulationInit ==
    [is_running |-> TRUE, is_paused |-> FALSE, speed_multiplier |-> 2,
     current_time |-> 0, best_fitness_ever |-> 0, steps_left |-> 0]

\* A variant of _force_next_generation that ends the living creatures the
\* way a fall does.
ForceNextGenerationAsFall(cs) ==
    [i \in 1..Len(cs) |-> IF cs[i].is_alive THEN Fell(cs[i]).creature ELSE cs[i]]

ForceNextGeneration(cs) == [i \in 1..Len(cs) |-> [cs[i] EXCEPT !.is_alive = FALSE]]

\* _handle_events for one event.
HandleEvent(s, ev) ==
    CASE ev \in {"QUIT", "K_ESCAPE"} -> [s EXCEPT !.is_running = FALSE]
      [] ev = "K_SPACE" -> [s EXCEPT !.is_paused = ~@]
      [] ev = "K_s" -> [s EXCEPT !.speed_multiplier = IF @ = 2 THEN 8 ELSE 2]
      [] OTHER -> s

\* _update_physics: postures[i] is where the steps of its space leave
\* creature i.
UpdatePhysics(cs, dt, current_time, postures) ==
    [i \in 1..Len(cs) |->
        IF cs[i].is_alive
        THEN CheckDeath(Update([cs[i] EXCEPT !.body = postures[i]], dt, current_time),
                        0).creature
        ELSE cs[i]]

\* A variant of _check_generation_complete that is a frame early.
GenerationCompleteEarly(cs, current_time) ==
    LET all_dead == \A i \in 1..Len(cs) : ~cs[i].is_alive
        time_up == current_time + 1 >= SIMULATION_TIME
    IN  all_dead \/ time_up

GenerationComplete(cs, current_time) ==
    LET all_dead == \A i \in 1..Len(cs) : ~cs[i].is_alive
        time_up == current_time >= SIMULATION_TIME
    IN  all_dead \/ time_up

\* Where run continues after an iteration of its loop.
LoopTop(s) == IF s.is_running THEN "handle_events" ELSE "cleanup"

\* The postures the steps of the spaces leave the creatures cs in: one
\* posture for all of them, or for the first one, the others staying as
\* they are.
SimPostures == {StrideLeft, StrideRight, Sagging}
PhysicsOutcomes(cs) ==
    { [i \in 1..Len(cs) |->
         IF who = "all" \/ (who = "first") = (i = 1) THEN body ELSE cs[i].body] :
      body \in SimPostures, who \in {"all", "first"} }

InitSim ==
    /\ config = ConfigDefaults
    /\ ga = GeneticAlgorithmInit
    /\ \E seed \in 0..MaxSeed : population_genes = CreateInitialPopulation(seed)
    /\ evolveCall = NoCall
    /\ fnCall = NoCall
    /\ creatures = CreateCreatures(population_genes)
    /\ sim = SimulationInit
    /\ pc = "handle_events"
    /\ hist = NoCall

\* The top of an iteration of run's loop: _handle_events, with at most one
\* event in pygame's queue, and the test of is_paused.
HandleEvents(events) ==
    /\ pc = "handle_events"
    /\ \E ev \in events :
          LET s == HandleEvent(sim, ev)
          IN  /\ sim' = [s EXCEPT !.steps_left = IF s.is_paused THEN 0 ELSE s.speed_multiplier]
              /\ creatures' = IF ev = "K_n" THEN ForceNextGeneration(creatures) ELSE creatures
              /\ pc' = IF s.is_paused THEN LoopTop(s) ELSE "update"
              /\ hist' = [called |-> TRUE, op |-> "_handle_events", event |-> ev]
    /\ UNCHANGED <<gaVars, fnCall, config>>

\* What the sub-steps of a frame run on: the creatures whose spaces are
\* stepped, and for each of them the number of updates that have written its
\* motor rates and the simulation time the last of them computed the rates
\* for (time_alive, which update advances by the same dt as the simulation
\* time).
SteppedOn(cs) ==
    [stepped |-> {i \in 1..Len(cs) : cs[i].is_alive},
     updates |-> [i \in 1..Len(cs) |-> cs[i].update_count],
     computed_for |-> [i \in 1..Len(cs) |-> cs[i].time_alive]]

\* One iteration of the loop over speed_multiplier: the time advances and
\* _update_physics steps, updates and checks every living creature.
UpdateStep ==
    /\ pc = "update"
    /\ \E postures \in PhysicsOutcomes(creatures) :
          creatures' = UpdatePhysics(creatures, 1, sim.current_time + 1, postures)
    /\ sim' = [sim EXCEPT !.current_time = @ + 1, !.steps_left = @ - 1]
    /\ pc' = IF sim.steps_left = 1 THEN "check_complete" ELSE "update"
    /\ hist' = [called |-> TRUE, op |-> "_update_physics", event |-> "NONE",
                step_time |-> sim.current_time + 1, stepped_on |-> SteppedOn(creatures)]
    /\ UNCHANGED <<gaVars, fnCall, config>>

\* The generation goes on.
Continue ==
    /\ pc = "check_complete"
    /\ ~GenerationComplete(creatures, sim.current_time)
    /\ pc' = LoopTop(sim)
    /\ hist' = [called |-> TRUE, op |-> "_check_generation_complete", event |-> "NONE"]
    /\ UNCHANGED <<gaVars, fnCall, creatures, sim, config>>

\* The generation is complete: _init_generation evolves the population and
\* creates its creatures.
InitGeneration ==
    /\ pc = "check_complete"
    /\ GenerationComplete(creatures, sim.current_time)
    /\ ga.generation < MaxSimGenerations
    /\ \E draw \in EvolveDraws(Min2(Len(population_genes), Len(creatures))) :
          LET fitness_scores == [i \in 1..Len(creatures) |-> creatures[i].fitness]
              draws == [k \in 1..LoopCount |-> draw]
          IN  \E res \in {Evolve(ga, population_genes, fitness_scores, draws)} :
              /\ ga' = res.ga
              /\ evolveCall' = [called |-> TRUE,
                                population |-> population_genes,
                                fitness_scores |-> fitness_scores,
                                alive |-> [i \in 1..Len(creatures) |-> creatures[i].is_alive],
                                current_time |-> sim.current_time,
                                draws |-> draws,
                                raised |-> res.raised,
                                result |-> res.population]
              /\ IF res.raised = ""
                 THEN /\ population_genes' = res.population
                      /\ creatures' = CreateCreatures(res.population)
                      /\ sim' = [sim EXCEPT
                                   !.best_fitness_ever = Max2(@, MaxSeq(fitness_scores)),
                                   !.current_time =
                                       IF CreateCreaturesRaised(res.population) = ""
                                       THEN 0 ELSE @]
                      /\ pc' = IF CreateCreaturesRaised(res.population) # "" THEN "raised"
                               ELSE IF res.ga.generation >= MaxSimGenerations
                               THEN "halted" ELSE LoopTop(sim)
                 ELSE /\ UNCHANGED <<population_genes, creatures>>
                      /\ sim' = [sim EXCEPT
                                   !.best_fitness_ever = Max2(@, MaxSeq(fitness_scores))]
                      /\ pc' = "raised"
    /\ hist' = [called |-> TRUE, op |-> "_init_generation", event |-> "NONE"]
    /\ UNCHANGED <<fnCall, config>>

\* _cleanup, after the loop.
Cleanup ==
    /\ pc = "cleanup"
    /\ creatures' = <<>>
    /\ pc' = "exited"
    /\ hist' = [called |-> TRUE, op |-> "_cleanup", event |-> "NONE"]
    /\ UNCHANGED <<gaVars, fnCall, sim, config>>

NextSim == HandleEvents(Events) \/ UpdateStep \/ Continue \/ InitGeneration \/ Cleanup

SpecSim == InitSim /\ [][NextSim]_vars

\* SpecSimRunning: the simulation while nobody pauses or ends it.
NextSimRunning == HandleEvents(RunningEvents) \/ UpdateStep \/ Continue \/ InitGeneration

\* run's loop does not stop while is_running holds: from each of its
\* positions control moves on.  RunLoop is that move, seen on pc alone.  It is
\* enabled exactly where NextSimRunning has a step to take, and the loop over
\* speed_multiplier leaves "update" after steps_left steps, so weak fairness
\* of RunLoop is weak fairness of NextSimRunning.
Positions == {"handle_events", "update", "check_complete", "halted"}
LoopEnabled == pc \in {"handle_events", "update", "check_complete"}
RunLoop == LoopEnabled /\ pc' \in Positions

SpecSimRunning == InitSim /\ [][NextSimRunning]_vars /\ WF_pc(RunLoop)

(***************************************************************************)
(* Claims about the Simulation.                                            *)
(***************************************************************************)
AllDead == \A i \in 1..Len(creatures) : ~creatures[i].is_alive

\* C6: evolve is called only when every creature of the generation is dead.
\* Whenever _check_generation_complete finds the generation complete (all
\* creatures dead, or the simulation time at the trial's duration) no
\* creature is alive, because the time_alive of a living creature advances
\* in lockstep with the simulation time.
C6_EvolveOnlyWhenAllDead ==
    /\ evolveCall.called => \A i \in DOMAIN evolveCall.alive : ~evolveCall.alive[i]
    /\ (pc = "check_complete" /\ sim.current_time >= SIMULATION_TIME) => AllDead
    /\ \A i \in 1..Len(creatures) :
          creatures[i].is_alive => creatures[i].time_alive = sim.current_time

\* C6's case: evolve has been called at the end of a trial that creatures
\* lived through to the time limit.
C6_Witness ==
    /\ evolveCall.called
    /\ evolveCall.current_time >= SIMULATION_TIME
    /\ \E i \in DOMAIN evolveCall.fitness_scores : evolveCall.fitness_scores[i] > 0
    /\ Len(creatures) = POPULATION_SIZE

C10_FitnessFormula ==
    /\ \A i \in 1..Len(creatures) :
          /\ creatures[i].fitness = ExpectedFitness(creatures[i])
          /\ creatures[i].fitness >= 0
    /\ evolveCall.called =>
          \A i \in DOMAIN evolveCall.fitness_scores : evolveCall.fitness_scores[i] >= 0

\* C10's case: a creature fell with a sum below the penalty and its fitness
\* is clamped, next to a creature that walked to the end of the trial.
C10_Witness ==
    /\ \E i \in 1..Len(creatures) :
          /\ creatures[i].fell_down
          /\ creatures[i].update_count > 0
          /\ FitnessSum(creatures[i]) < 0
          /\ creatures[i].fitness = 0
    /\ \E j \in 1..Len(creatures) :
          /\ ~creatures[j].is_alive
          /\ ~creatures[j].fell_down
          /\ creatures[j].step_count > 0
          /\ creatures[j].fitness > 0

(***************************************************************************)
(* _calculate_diversity on its own.                                        *)
(***************************************************************************)
\* A population handed to _calculate_diversity has at most this many genomes.
MaxDiversityPopulation == 3

\* sum(gene_values): the floats are added from the left, every partial sum
\* rounded.
RECURSIVE FloatSumFrom(_, _)
FloatSumFrom(acc, s) ==
    IF s = <<>> THEN acc ELSE FloatSumFrom(FAdd(acc, Head(s)), Tail(s))
FloatSum(s) == FloatSumFrom(0, s)

\* Python float / by a count: the quotient rounded to the nearest float, ties
\* to the even mantissa.
FloatQuotient(a, n) ==
    LET s == Spacing(Abs(a) \div n)
        d == n * s
        q == Abs(a) \div d
        r == Abs(a) % d
        up == (2 * r > d) \/ (2 * r = d /\ q % 2 = 1)
        m == (IF up THEN q + 1 ELSE q) * s
    IN  IF a < 0 THEN -m ELSE m

\* mean = sum(gene_values) / len(gene_values)
FloatMean(gene_values) == FloatQuotient(FloatSum(gene_values), Len(gene_values))

\* Whether the float that _calculate_diversity returns is 0.0.  (The value
\* CalculateDiversity gives is that float to the nearest thousandth.)  The
\* float is a sum of square roots of sums of squares (v - mean) ** 2, each
\* divided by a positive count or range, so it is 0.0 exactly when every
\* gene value equals the float mean of its position.
DiversityIsZero(population) ==
    /\ Len(population) >= 2
    /\ \A p \in 1..Len(population[1]) :
          GeneRange(p) > 0 =>
              LET gene_values == [k \in 1..Len(population) |-> population[k][p]]
              IN  \A k \in 1..Len(population) : gene_values[k] = FloatMean(gene_values)

\* The genomes the populations are made of.
DiversityGenomes == {RandomGenes(seed, k) : seed \in 0..MaxSeed, k \in 1..2}

DiversityPopulations ==
    UNION {[1..n -> DiversityGenomes] : n \in 0..MaxDiversityPopulation}

InitDiversity ==
    /\ ga = GeneticAlgorithmInit
    /\ population_genes \in DiversityPopulations
    /\ evolveCall = NoCall
    /\ fnCall = NoCall
    /\ creatures = <<>>
    /\ sim = NoSimulation
    /\ pc = "none"
    /\ hist = NoCall
    /\ config = ConfigDefaults

CalculateDiversityStep ==
    /\ ~fnCall.called
    /\ fnCall' = [called |-> TRUE, op |-> "_calculate_diversity",
                  population |-> population_genes,
                  diversity |-> CalculateDiversity(population_genes),
                  is_zero |-> DiversityIsZero(population_genes)]
    /\ UNCHANGED <<gaVars, simVars, config>>

NextDiversity == CalculateDiversityStep

SpecDiversity == InitDiversity /\ [][NextDiversity]_vars

Identical(population) ==
    \A j, k \in 1..Len(population) : population[j] = population[k]

\* C11: _calculate_diversity returns 1.0 for a population of size 0 or 1,
\* returns 0 for every population of two or more identical genomes, and
\* returns a value in [0, 1] for every population.
C11_Diversity ==
    (fnCall.called /\ fnCall.op = "_calculate_diversity") =>
        /\ (Len(fnCall.population) < 2 => fnCall.diversity = 1000)
        /\ ((Len(fnCall.population) >= 2 /\ Identical(fnCall.population))
               => fnCall.is_zero)
        /\ fnCall.diversity \in 0..1000

(***************************************************************************)
(* SpecRoulette: _roulette_selection applied to the initial population.    *)
(***************************************************************************)
\* The fitness arrays handed to _roulette_selection: those of evolve, and the
\* same arrays lowered by 3.0 so that some fitnesses are negative.
RouletteFitness(n) ==
    FitnessVectors(n)
    \cup {[i \in 1..n |-> fitness_scores[i] - 300] : fitness_scores \in FitnessVectors(n)}

InitRoulette == InitEvolve

RouletteSelectionStep ==
    /\ \E fitness_scores \in RouletteFitness(Len(population_genes)) :
       \E r \in 0..RandomSteps :
          fnCall' = [called |-> TRUE, op |-> "_roulette_selection",
                     population |-> population_genes,
                     fitness_scores |-> fitness_scores,
                     adjusted_fitness |-> AdjustedFitness(fitness_scores),
                     total_fitness |-> SumSeq(AdjustedFitness(fitness_scores)),
                     result |-> RouletteSelection(population_genes, fitness_scores, r)]
    /\ UNCHANGED <<gaVars, simVars, config>>

NextRoulette == RouletteSelectionStep

SpecRoulette == InitRoulette /\ [][NextRoulette]_vars

\* C12: in roulette selection the smallest adjusted weight is exactly 1 and
\* every adjusted weight is at least 1, so the total weight of a non-empty
\* population is not zero, and the genome returned is a member of the
\* population whose adjusted weight is positive.
C12_Roulette ==
    (fnCall.called /\ fnCall.op = "_roulette_selection") =>
        /\ MinSeq(fnCall.adjusted_fitness) = 100
        /\ \A i \in 1..Len(fnCall.adjusted_fitness) : fnCall.adjusted_fitness[i] >= 100
        /\ fnCall.total_fitness > 0
        /\ \E i \in 1..Len(fnCall.population) :
              /\ fnCall.result = fnCall.population[i]
              /\ fnCall.adjusted_fitness[i] > 0

\* C12 witness: the fitnesses differ, the lowest of them is negative, and the
\* genome returned is the one of lowest fitness, which no other member of the
\* population equals.
C12_Witness ==
    /\ fnCall.called /\ fnCall.op = "_roulette_selection"
    /\ MinSeq(fnCall.fitness_scores) < 0
    /\ MaxSeq(fnCall.fitness_scores) > MinSeq(fnCall.fitness_scores)
    /\ \E i \in 1..Len(fnCall.population) :
          /\ fnCall.fitness_scores[i] = MinSeq(fnCall.fitness_scores)
          /\ fnCall.adjusted_fitness[i] = 100
          /\ fnCall.result = fnCall.population[i]
          /\ \A j \in 1..Len(fnCall.population) :
                j # i => fnCall.population[j] # fnCall.population[i]

(***************************************************************************)
(* config.set_creature_type and main.setup_config                          *)
(*                                                                         *)
(* A str is the sequence of its characters; an argument that may be None   *)
(* is a record with the fields is_none and str.                            *)
(***************************************************************************)
Whitespace == {" ", "\t"}
LowerLetters ==
    <<"a", "b", "c", "d", "e", "f", "g", "h", "i", "j", "k", "l", "m",
      "n", "o", "p", "q", "r", "s", "t", "u", "v", "w", "x", "y", "z">>
UpperLetters ==
    <<"A", "B", "C", "D", "E", "F", "G", "H", "I", "J", "K", "L", "M",
      "N", "O", "P", "Q", "R", "S", "T", "U", "V", "W", "X", "Y", "Z">>

\* str.strip()
RECURSIVE LStrip(_)
LStrip(s) == IF s # <<>> /\ Head(s) \in Whitespace THEN LStrip(Tail(s)) ELSE s
RECURSIVE RStrip(_)
RStrip(s) ==
    IF s # <<>> /\ s[Len(s)] \in Whitespace THEN RStrip(SubSeq(s, 1, Len(s) - 1)) ELSE s
Strip(s) == RStrip(LStrip(s))

\* str.upper()
UpperChar(c) ==
    IF \E i \in 1..Len(LowerLetters) : LowerLetters[i] = c
    THEN UpperLetters[CHOOSE i \in 1..Len(LowerLetters) : LowerLetters[i] = c]
    ELSE c
Upper(s) == [i \in 1..Len(s) |-> UpperChar(s[i])]

\* creature_type or ""
OrEmpty(creature_type) == IF creature_type.is_none THEN <<>> ELSE creature_type.str

BIPED == <<"B", "I", "P", "E", "D">>
QUADRUPED == <<"Q", "U", "A", "D", "R", "U", "P", "E", "D">>

\* Mutant: a set_creature_type that takes every name it does not know as
\* the biped.
SetCreatureTypeDefaulting(cfg, creature_type) ==
    LET normalized == Upper(Strip(OrEmpty(creature_type)))
        quadruped == normalized = QUADRUPED
    IN  [raised |-> "",
         config |-> [cfg EXCEPT
            !.CREATURE_TYPE = IF quadruped THEN "QUADRUPED" ELSE "BIPED",
            !.MOTOR_COUNT = IF quadruped THEN 8 ELSE 4,
            !.GENE_COUNT = GENES_PER_MOTOR * (IF quadruped THEN 8 ELSE 4)]]

\* set_creature_type.  raised names the exception the call ends with, "" for
\* none; config is the module's globals after the call.
SetCreatureType(cfg, creature_type) ==
    LET normalized == Upper(Strip(OrEmpty(creature_type)))
        quadruped == normalized = QUADRUPED
        torso_height == IF quadruped THEN 20 ELSE 30
        motor_count == IF quadruped THEN 8 ELSE 4
    IN  IF normalized \notin {BIPED, QUADRUPED}
        THEN [raised |-> "ValueError", config |-> cfg]
        ELSE [raised |-> "",
              config |-> [cfg EXCEPT
                 !.CREATURE_TYPE = IF quadruped THEN "QUADRUPED" ELSE "BIPED",
                 !.TORSO_WIDTH = IF quadruped THEN 100 ELSE 60,
                 !.TORSO_HEIGHT = torso_height,
                 !.TORSO_MASS = IF quadruped THEN 8 ELSE 6,
                 !.MOTOR_COUNT = motor_count,
                 !.QUADRUPED_LEG_X_OFFSET = IF quadruped THEN 8 ELSE 0,
                 !.HIP_MIN_ANGLE = IF quadruped THEN -1200 ELSE -800,
                 !.HIP_MAX_ANGLE = IF quadruped THEN 1200 ELSE 600,
                 !.KNEE_MIN_ANGLE = IF quadruped THEN -500 ELSE 0,
                 !.KNEE_MAX_ANGLE = IF quadruped THEN 1500 ELSE 1200,
                 !.GENE_COUNT = GENES_PER_MOTOR * motor_count,
                 !.EXPECTED_STANDING_HEIGHT =
                     THIGH_LENGTH + SHIN_LENGTH + FOOT_HEIGHT + torso_height \div 2]]

Str(s) == [is_none |-> FALSE, str |-> s]
None == [is_none |-> TRUE, str |-> <<>>]

\* The sizes setup_config accepts: main.py:53 accepts 5..50 around the
\* default of 15; the model accepts the sizes around its own default.
PromptPopulationMin == POPULATION_SIZE - 2
PromptPopulationMax == POPULATION_SIZE + 2

\* An answer to a numeric prompt: nothing, a number, or text that int() or
\* float() does not parse.
NoAnswer == [text |-> "empty", value |-> 0]
Number(n) == [text |-> "number", value |-> n]
Invalid == [text |-> "invalid", value |-> 0]

\* setup_config with the answers given at its prompts.  The rates are in
\* thousandths.
SetupConfig(cfg, answers) ==
    IF answers.use_default THEN cfg
    ELSE LET c1 == IF answers.creature_choice = "1"
                   THEN SetCreatureType(cfg, Str(BIPED)).config
                   ELSE IF answers.creature_choice = "2"
                   THEN SetCreatureType(cfg, Str(QUADRUPED)).config
                   ELSE cfg
             c2 == IF /\ answers.pop_input.text = "number"
                      /\ PromptPopulationMin <= answers.pop_input.value
                      /\ answers.pop_input.value <= PromptPopulationMax
                   THEN [c1 EXCEPT !.POPULATION_SIZE = answers.pop_input.value]
                   ELSE c1
             c3 == IF /\ answers.mut_rate_input.text = "number"
                      /\ 0 <= answers.mut_rate_input.value
                      /\ answers.mut_rate_input.value <= 1000
                   THEN [c2 EXCEPT !.MUTATION_RATE = answers.mut_rate_input.value]
                   ELSE c2
             c4 == IF /\ answers.mut_str_input.text = "number"
                      /\ 0 <= answers.mut_str_input.value
                      /\ answers.mut_str_input.value <= 1000
                   THEN [c3 EXCEPT !.MUTATION_STRENGTH = answers.mut_str_input.value]
                   ELSE c3
         IN  [c4 EXCEPT !.GENE_COUNT = GENES_PER_MOTOR * c4.MOTOR_COUNT]

(***************************************************************************)
(* SpecConfig: the config module, with set_creature_type called with any   *)
(* name and setup_config run with any answers.                             *)
(***************************************************************************)
CreatureTypeNames ==
    { Str(BIPED), Str(QUADRUPED), None, Str(<<>>), Str(<<" ">>),
      Str(<<"b", "i", "p", "e", "d", " ">>),
      Str(<<" ", "Q", "u", "a", "d", "r", "u", "p", "e", "d">>),
      Str(<<"H", "E", "X", "A", "P", "O", "D">>),
      Str(<<"B", "I", " ", "P", "E", "D">>),
      Str(<<"B", "I", "P", "E", "D", "S">>),
      Str(<<"1">>) }

PopulationAnswers ==
    {NoAnswer, Invalid}
    \cup {Number(n) : n \in (PromptPopulationMin - 1)..(PromptPopulationMax + 1)}
RateAnswers == {NoAnswer, Invalid, Number(500), Number(1500)}

SetupAnswers ==
    [use_default : BOOLEAN, creature_choice : {"", "1", "2", "3"},
     pop_input : PopulationAnswers, mut_rate_input : RateAnswers,
     mut_str_input : RateAnswers]

InitConfig ==
    /\ config = ConfigDefaults
    /\ ga = GeneticAlgorithmInit
    /\ population_genes = <<>>
    /\ evolveCall = NoCall
    /\ fnCall = NoCall
    /\ creatures = <<>>
    /\ sim = NoSimulation
    /\ pc = "none"
    /\ hist = NoCall

SetCreatureTypeCall ==
    /\ \E creature_type \in CreatureTypeNames :
       \E res \in {SetCreatureType(config, creature_type)} :
          /\ config' = res.config
          /\ fnCall' = [called |-> TRUE, op |-> "set_creature_type",
                        creature_type |-> creature_type,
                        before |-> config, raised |-> res.raised]
    /\ UNCHANGED <<gaVars, simVars>>

SetupConfigCall ==
    /\ \E answers \in SetupAnswers :
          /\ config' = SetupConfig(config, answers)
          /\ fnCall' = [called |-> TRUE, op |-> "setup_config", before |-> config]
    /\ UNCHANGED <<gaVars, simVars>>

NextConfig == SetCreatureTypeCall \/ SetupConfigCall

SpecConfig == InitConfig /\ [][NextConfig]_vars

\* Whether a and b are the same letter in either case.
SameLetter(a, b) ==
    \/ a = b
    \/ \E i \in 1..Len(LowerLetters) :
          {a, b} = {LowerLetters[i], UpperLetters[i]}

\* Whether a str is the name with whitespace around it, in any case.
Spells(s, name) ==
    \E a \in 0..Len(s) :
       /\ a + Len(name) <= Len(s)
       /\ \A i \in 1..Len(s) :
             IF i > a /\ i <= a + Len(name)
             THEN SameLetter(s[i], name[i - a])
             ELSE s[i] \in Whitespace

Recognized(creature_type) ==
    /\ ~creature_type.is_none
    /\ (Spells(creature_type.str, BIPED) \/ Spells(creature_type.str, QUADRUPED))

\* C13: set_creature_type raises an error for every name that is not BIPED
\* or QUADRUPED once trimmed and put in upper case, and none of the
\* configuration values is changed by a call that is rejected; the names
\* that are BIPED or QUADRUPED are accepted.
C13_UnknownTypeRejected ==
    (fnCall.called /\ fnCall.op = "set_creature_type") =>
        IF Recognized(fnCall.creature_type)
        THEN fnCall.raised = ""
        ELSE fnCall.raised = "ValueError" /\ config = fnCall.before

\* C13 witness: a name that is not known has been rejected while the
\* configuration was the biped's with a population size other than the
\* default.
C13_Witness ==
    /\ fnCall.called /\ fnCall.op = "set_creature_type"
    /\ fnCall.creature_type = Str(<<"H", "E", "X", "A", "P", "O", "D">>)
    /\ fnCall.raised = "ValueError"
    /\ config.CREATURE_TYPE = "BIPED"
    /\ config.MOTOR_COUNT = 4
    /\ config.POPULATION_SIZE # POPULATION_SIZE

(***************************************************************************)
(* SpecConstruct: a Creature is constructed with a genome of any length    *)
(* and is then updated and checked.                                        *)
(***************************************************************************)
\* The genomes handed to the constructor: a genome of the population, the
\* same without its last gene, its first half (the length of a biped's
\* genome), one gene, none, and the genome with three more genes.
ConstructorGenomes(genes) ==
    {genes,
     SubSeq(genes, 1, Len(genes) - 1),
     SubSeq(genes, 1, Len(genes) \div 2),
     SubSeq(genes, 1, 1),
     <<>>,
     genes \o SubSeq(genes, 1, GENES_PER_MOTOR)}

InitConstruct ==
    /\ config = ConfigDefaults
    /\ ga = GeneticAlgorithmInit
    /\ \E seed \in 0..MaxSeed : population_genes = CreateInitialPopulation(seed)
    /\ evolveCall = NoCall
    /\ fnCall = NoCall
    /\ creatures = <<>>
    /\ sim = NoSimulation
    /\ pc = "none"
    /\ hist = NoCreatureCall

\* Creature(space, start_x, start_y, genes): __init__ stores the list it is
\* given and builds the body; it does not look at the length of the list.
ConstructCall ==
    /\ creatures = <<>>
    /\ \E genes \in ConstructorGenomes(population_genes[1]) :
          creatures' = <<Creature(GroundSpace, START_X, START_Y, genes, 0)>>
    /\ hist' = [hist EXCEPT !.called = TRUE, !.op = "__init__", !.raised = ""]
    /\ UNCHANGED <<gaVars, fnCall, sim, pc, config>>

\* remove_from_space: the motors, pivot joints, rotary limit joints, shapes
\* and bodies of the creature's lists are removed from the space where they
\* are in it, and the lists are cleared.  Space.remove takes out the objects
\* it is given and no others.
RemoveFromSpace(c) ==
    [c EXCEPT
       !.space = [bodies |-> @.bodies \ Range(c.bodies),
                  shapes |-> @.shapes \ Range(c.shapes),
                  constraints |->
                      @.constraints \ ({Motors[i] : i \in 1..Len(c.motors)}
                                       \cup Range(c.pivot_joints)
                                       \cup Range(c.rotary_limit_joints))],
       !.motors = <<>>,
       !.pivot_joints = <<>>,
       !.rotary_limit_joints = <<>>,
       !.shapes = <<>>,
       !.bodies = <<>>]

RemoveFromSpaceCall ==
    /\ creatures # <<>>
    /\ creatures' = [creatures EXCEPT ![1] = RemoveFromSpace(@)]
    /\ hist' = [hist EXCEPT !.called = TRUE, !.op = "remove_from_space",
                            !.alive = creatures[1].is_alive, !.raised = ""]
    /\ UNCHANGED <<gaVars, fnCall, sim, pc, config>>

NextConstruct == ConstructCall \/ UpdateCall \/ CheckDeathCall \/ RemoveFromSpaceCall

SpecConstruct == InitConstruct /\ [][NextConstruct]_vars

\* C14: a Creature whose genome does not have 3 x motor count genes is
\* rejected when it is constructed: no such creature exists, so none is
\* alive and none is updated.
C14_GenomeLengthChecked ==
    \A i \in 1..Len(creatures) :
       Len(creatures[i].genes) = GENES_PER_MOTOR * Len(creatures[i].motors)

(***************************************************************************)
(* SpecSetup: main.  setup_config asks for the configuration, a Simulation *)
(* is constructed and run.                                                 *)
(***************************************************************************)
\* The answers given at setup_config's prompts.
MainAnswers ==
    [use_default : BOOLEAN, creature_choice : {"", "1", "2"},
     pop_input : {NoAnswer, Number(POPULATION_SIZE - 1), Number(POPULATION_SIZE + 1),
                  Number(PromptPopulationMax + 1)},
     mut_rate_input : {NoAnswer}, mut_str_input : {NoAnswer}]

\* The keys pressed while the simulation runs.
MainEvents == {"NONE", "K_n"}

InitSetup ==
    /\ config = ConfigDefaults
    /\ ga = GeneticAlgorithmInit
    /\ population_genes = <<>>
    /\ evolveCall = NoCall
    /\ fnCall = NoCall
    /\ creatures = <<>>
    /\ sim = NoSimulation
    /\ pc = "setup_config"
    /\ hist = NoCall

MainSetupConfig ==
    /\ pc = "setup_config"
    /\ \E answers \in MainAnswers : config' = SetupConfig(config, answers)
    /\ pc' = "construct"
    /\ hist' = [called |-> TRUE, op |-> "setup_config", event |-> "NONE"]
    /\ UNCHANGED <<gaVars, fnCall, creatures, sim>>

\* Simulation(): __init__ constructs the GeneticAlgorithm and calls
\* _init_generation, which creates the initial population and the creatures.
\* An IndexError leaves __init__, and main ends.
Construct ==
    /\ pc = "construct"
    /\ ga' = GeneticAlgorithmInit
    /\ \E seed \in 0..MaxSeed :
       \E population \in {CreateInitialPopulation(seed)} :
          /\ population_genes' = population
          /\ creatures' = CreateCreatures(population)
          /\ pc' = IF CreateCreaturesRaised(population) # "" THEN "raised"
                   ELSE "handle_events"
    /\ sim' = SimulationInit
    /\ hist' = [called |-> TRUE, op |-> "__init__", event |-> "NONE"]
    /\ UNCHANGED <<evolveCall, fnCall, config>>

NextSetup ==
    \/ MainSetupConfig
    \/ Construct
    \/ HandleEvents(MainEvents)
    \/ UpdateStep
    \/ Continue
    \/ InitGeneration

SpecSetup == InitSetup /\ [][NextSetup]_vars

Constructed == pc \notin {"setup_config", "construct"}

\* C15: once setup_config has set the creature type, the creature and
\* evolution modules see the values the config module holds, every creature
\* built has the motor count of the selected profile, and every genome of
\* the population has 3 x that motor count genes.
C15_ProfileEverywhere ==
    Constructed =>
        /\ CREATURE_TYPE = config.CREATURE_TYPE
        /\ MOTOR_COUNT = config.MOTOR_COUNT
        /\ GENE_COUNT = config.GENE_COUNT
        /\ TORSO_WIDTH = config.TORSO_WIDTH
        /\ TORSO_HEIGHT = config.TORSO_HEIGHT
        /\ HIP_MIN_ANGLE = config.HIP_MIN_ANGLE
        /\ HIP_MAX_ANGLE = config.HIP_MAX_ANGLE
        /\ KNEE_MIN_ANGLE = config.KNEE_MIN_ANGLE
        /\ KNEE_MAX_ANGLE = config.KNEE_MAX_ANGLE
        /\ \A i \in 1..Len(creatures) :
              Len(creatures[i].motors) = config.MOTOR_COUNT
        /\ \A k \in 1..Len(population_genes) :
              Len(population_genes[k]) = GENES_PER_MOTOR * config.MOTOR_COUNT

\* C16: in every generation, for every population size the setup prompt
\* accepts, there are as many creatures as genomes, creature i carries
\* genome i, the fitness array handed to evolve has one entry per genome of
\* the population, and the population has the configured size.
C16_ParallelArrays ==
    Constructed =>
        /\ Len(creatures) = Len(population_genes)
        /\ \A i \in 1..Len(creatures) : creatures[i].genes = population_genes[i]
        /\ Len(population_genes) = config.POPULATION_SIZE
        /\ evolveCall.called =>
              Len(evolveCall.fitness_scores) = Len(evolveCall.population)

\* C17: after remove_from_space the creature's space holds none of the
\* bodies, shapes and joints that the construction of the creature added:
\* every pivot, rotary limit, motor and gear constraint, every shape and
\* every body of the creature is out of the space.
C17_SpaceEmptied ==
    (hist.called /\ hist.op = "remove_from_space") =>
        \A i \in 1..Len(creatures) :
           /\ creatures[i].space.constraints = {}
           /\ creatures[i].space.bodies \cap Range(BodyParts) = {}
           /\ creatures[i].space.shapes \cap Range(BodyParts) = {}

\* C18: in every frame the motor rates computed for the frame's simulation
\* time are written before the frame's physics sub-steps run, and the death
\* check follows: the sub-steps of no living creature run on rates computed
\* for an earlier simulation time or on the initial zero rates.
C18_MotorsBeforeStep ==
    (hist.called /\ hist.op = "_update_physics") =>
        \A i \in hist.stepped_on.stepped :
           /\ hist.stepped_on.updates[i] > 0
           /\ hist.stepped_on.computed_for[i] = hist.step_time

Fitnesses(cs) == [i \in 1..Len(cs) |-> cs[i].fitness]

\* C19: force-next-generation, at whatever frame boundary it is applied,
\* sets every living creature to dead and changes nothing else of any
\* creature; once all creatures are dead none is updated or stepped any
\* more; and the next check of the generation, in the next loop iteration
\* that is not paused, finds it complete and calls evolve once, with the
\* fitness values the creatures had when the operation was applied.
C19_ForceNextGeneration ==
    [][ /\ (pc = "handle_events" /\ hist'.op = "_handle_events" /\ hist'.event = "K_n") =>
              /\ Len(creatures') = Len(creatures)
              /\ \A i \in 1..Len(creatures) :
                    creatures'[i] = [creatures[i] EXCEPT !.is_alive = FALSE]
        /\ (AllDead /\ pc \in {"handle_events", "update"}) => creatures' = creatures
        /\ (AllDead /\ pc = "check_complete") =>
              /\ evolveCall'.called
              /\ evolveCall'.raised = ""
              /\ evolveCall'.fitness_scores = Fitnesses(creatures)
              /\ ga'.generation = ga.generation + 1
      ]_vars

\* C19 witness: the operation has just been applied in the middle of a
\* trial, to a creature that had walked and was still alive.
C19_Witness ==
    /\ hist.called /\ hist.op = "_handle_events" /\ hist.event = "K_n"
    /\ pc = "update"
    /\ AllDead
    /\ \E i \in 1..Len(creatures) :
          /\ ~creatures[i].fell_down
          /\ creatures[i].update_count > 0
          /\ creatures[i].time_alive < SIMULATION_TIME
          /\ creatures[i].fitness > 0


(***************************************************************************)
(* The upright-distance accumulator.                                       *)
(***************************************************************************)
\* C20: the upright-distance accumulator never decreases.  In an update of
\* a living creature it grows by the horizontal displacement since the
\* previous frame exactly when the torso is upright in this frame (above the
\* upright height, tilted less than the upright angle) and the displacement
\* is positive, and it is unchanged otherwise; last_x becomes the torso's x
\* in every such update, credited or not.  No other operation touches
\* either of them.
C20_UprightDistance ==
    [][ LET c == creatures[1]
            d == creatures'[1]
            dx == c.body.x - c.last_x
            upright == /\ c.body.y > UPRIGHT_HEIGHT_THRESHOLD
                       /\ c.body.angle < UPRIGHT_ANGLE_THRESHOLD
                       /\ c.body.angle > -UPRIGHT_ANGLE_THRESHOLD
        IN  /\ d.upright_distance >= c.upright_distance
            /\ (hist'.op = "update" /\ c.is_alive) =>
                  /\ (upright /\ dx > 0) => d.upright_distance = c.upright_distance + dx
                  /\ ~(upright /\ dx > 0) => d.upright_distance = c.upright_distance
                  /\ d.last_x = c.body.x
            /\ ~(hist'.op = "update" /\ c.is_alive) =>
                  /\ d.upright_distance = c.upright_distance
                  /\ d.last_x = c.last_x
      ]_vars

\* A living creature has been credited a stride forward and has then moved
\* back while upright: the accumulator holds more than the net displacement
\* and last_x has followed the torso.
C20_Witness ==
    LET c == creatures[1]
    IN  /\ hist.called /\ hist.op = "update" /\ hist.alive
        /\ c.is_alive /\ c.update_count >= 2
        /\ c.body.y > UPRIGHT_HEIGHT_THRESHOLD
        /\ c.body.angle < UPRIGHT_ANGLE_THRESHOLD
        /\ c.body.angle > -UPRIGHT_ANGLE_THRESHOLD
        /\ c.upright_distance > 0
        /\ c.last_x = c.body.x
        /\ c.last_x - START_X < c.upright_distance


(***************************************************************************)
(* Gait steps.                                                             *)
(***************************************************************************)
\* C21: gait steps are counted per foot pair.  In an update of a living
\* creature, a pair whose foot offset is smaller in magnitude than
\* STEP_MIN_LEG_DELTA keeps its recorded sign and counts nothing; any other
\* pair records the sign of its offset; the step counter grows by one for
\* each pair that had a recorded sign, records the opposite one, while the
\* creature is upright and has moved forward in this frame, and by nothing
\* else: a first sign, and a flip seen while not upright or not moving
\* forward, are recorded without being counted.  No other operation changes
\* the recorded signs or the counter.
C21_StepCounting ==
    [][ LET c == creatures[1]
            d == creatures'[1]
            dx == c.body.x - c.last_x
            upright == /\ c.body.y > UPRIGHT_HEIGHT_THRESHOLD
                       /\ c.body.angle < UPRIGHT_ANGLE_THRESHOLD
                       /\ c.body.angle > -UPRIGHT_ANGLE_THRESHOLD
            Offset(k) == c.body.foot_x[Pairs[k].right] - c.body.foot_x[Pairs[k].left]
            Recorded(k) == Offset(k) >= STEP_MIN_LEG_DELTA \/ Offset(k) <= -STEP_MIN_LEG_DELTA
            Sign(k) == IF Offset(k) > 0 THEN 1 ELSE -1
            Before(k) == c.last_leg_delta_sign[Pairs[k].key]
            Counted(k) == /\ Recorded(k)
                          /\ Before(k) # 0
                          /\ Sign(k) # Before(k)
                          /\ upright
                          /\ dx > 0
        IN  /\ (hist'.op = "update" /\ c.is_alive) =>
                  /\ \A k \in 1..Len(Pairs) :
                        d.last_leg_delta_sign[Pairs[k].key] =
                            IF Recorded(k) THEN Sign(k) ELSE Before(k)
                  /\ d.step_count =
                        c.step_count + Cardinality({k \in 1..Len(Pairs) : Counted(k)})
            /\ ~(hist'.op = "update" /\ c.is_alive) =>
                  /\ d.last_leg_delta_sign = c.last_leg_delta_sign
                  /\ d.step_count = c.step_count
      ]_vars

\* Three updates of a living creature: a stride to the left (first signs,
\* nothing counted), a tilted frame in which the front pair flips (recorded,
\* not counted), and an upright stride to the right in which only the flip
\* of the back pair is counted.
C21_Witness ==
    LET c == creatures[1]
    IN  /\ hist.called /\ hist.op = "update" /\ hist.alive
        /\ c.is_alive
        /\ c.update_count = 3
        /\ c.upright_frames = 2
        /\ c.height_sum = StrideLeft.y + Tilted.y + StrideRight.y
        /\ c.upright_distance = (StrideLeft.x - START_X) + (StrideRight.x - Tilted.x)
        /\ c.body = StrideRight
        /\ c.last_leg_delta_sign["front"] = 1
        /\ c.last_leg_delta_sign["back"] = -1
        /\ c.step_count = 1


(***************************************************************************)
(* SpecAdaptive: a GeneticAlgorithm is evolved twice, from populations of  *)
(* no, little and ample diversity, with draws of _mutate that hit a gene   *)
(* or not according to the mutation rate in force.                         *)
(***************************************************************************)
MaxAdaptiveGenerations == 2

\* A population of identical genomes but for the amplitudes of the first.
NearlyUniformPopulation ==
    [CreateInitialPopulation(0) EXCEPT
        ![1] = [p \in 1..GENE_COUNT |-> IF GeneType(p) = 0 THEN AMPLITUDE_MAX ELSE @[p]]]

AdaptivePopulations ==
    {CreateInitialPopulation(seed) : seed \in 0..MaxSeed} \cup {NearlyUniformPopulation}

\* A draw of _mutate whose random() is r / RandomSteps for every gene.
RateProbe(r) ==
    [r |-> [p \in 1..GENE_COUNT |-> r], z |-> [p \in 1..GENE_COUNT |-> 1]]

\* The draws of one iteration of evolve's loop: the first child is mutated
\* under a random() just above the base rate, the second under one just
\* above twice the base rate.
AdaptiveDraws(n) ==
    LET k == Min2(TOURNAMENT_SIZE, n)
        low == [i \in 1..k |-> i]
        high == [i \in 1..k |-> n + 1 - i]
    IN  { [select1 |-> [sample |-> low, r |-> 0],
           select2 |-> [sample |-> high, r |-> NoHit],
           r |-> NoHit, point |-> 1,
           mut1 |-> RateProbe(1), mut2 |-> RateProbe(2)],
          [select1 |-> [sample |-> high, r |-> 0],
           select2 |-> [sample |-> low, r |-> NoHit],
           r |-> 0, point |-> 1,
           mut1 |-> RateProbe(2), mut2 |-> MutationDraw({}, 0)] }

InitAdaptive ==
    /\ ga = GeneticAlgorithmInit
    /\ population_genes \in AdaptivePopulations
    /\ evolveCall = NoCall
    /\ fnCall = NoCall
    /\ creatures = <<>>
    /\ sim = NoSimulation
    /\ pc = "none"
    /\ hist = NoCall
    /\ config = ConfigDefaults

AdaptiveEvolveStep ==
    /\ ga.generation < MaxAdaptiveGenerations
    /\ \E fitness_scores \in FitnessVectors(Len(population_genes)) :
       \E draws \in [1..LoopCount -> AdaptiveDraws(Len(population_genes))] :
       \E res \in {Evolve(ga, population_genes, fitness_scores, draws)} :
          /\ ga' = res.ga
          /\ population_genes' =
                IF res.raised = "" THEN res.population ELSE population_genes
          /\ evolveCall' = [called |-> TRUE,
                            population |-> population_genes,
                            fitness_scores |-> fitness_scores,
                            draws |-> draws,
                            raised |-> res.raised,
                            result |-> res.population]
    /\ UNCHANGED <<fnCall, simVars, config>>

NextAdaptive == AdaptiveEvolveStep

SpecAdaptive == InitAdaptive /\ [][NextAdaptive]_vars

\* The parents evolve's loop selects from, best first.
SortedGenomes(fitness_scores, population) ==
    LET sorted_pairs == SortedPairs(fitness_scores, population)
    IN  [i \in 1..Len(sorted_pairs) |-> sorted_pairs[i].genes]
SortedFitness(fitness_scores, population) ==
    LET sorted_pairs == SortedPairs(fitness_scores, population)
    IN  [i \in 1..Len(sorted_pairs) |-> sorted_pairs[i].fit]

\* C22: the mutation rate and strength always lie between their base and
\* their maximum.  After a call of evolve, with d the diversity of the
\* population passed to it: if d is below DIVERSITY_THRESHOLD they are
\* base + (1 - d / DIVERSITY_THRESHOLD) * (max - base), otherwise they are
\* the base values; and the offspring returned by that call are the ones
\* bred with these values.
C22_AdaptiveMutation ==
    /\ ga.current_mutation_rate >= MUTATION_RATE
    /\ ga.current_mutation_rate <= MUTATION_RATE_MAX
    /\ ga.current_mutation_strength >= MUTATION_STRENGTH
    /\ ga.current_mutation_strength <= MUTATION_STRENGTH_MAX
    /\ evolveCall.called =>
          LET d == CalculateDiversity(evolveCall.population)
              below == 1000 - FDiv(d * 1000, DIVERSITY_THRESHOLD)
              sorted_population ==
                  SortedGenomes(evolveCall.fitness_scores, evolveCall.population)
              sorted_fitness ==
                  SortedFitness(evolveCall.fitness_scores, evolveCall.population)
          IN  /\ d = ga.diversity_history[Len(ga.diversity_history)]
              /\ d < DIVERSITY_THRESHOLD =>
                    /\ ga.current_mutation_rate =
                          MUTATION_RATE
                          + FDiv(below * (MUTATION_RATE_MAX - MUTATION_RATE), 1000)
                    /\ ga.current_mutation_strength =
                          MUTATION_STRENGTH
                          + FDiv(below * (MUTATION_STRENGTH_MAX - MUTATION_STRENGTH), 1000)
              /\ d >= DIVERSITY_THRESHOLD =>
                    /\ ga.current_mutation_rate = MUTATION_RATE
                    /\ ga.current_mutation_strength = MUTATION_STRENGTH
              /\ evolveCall.raised = "" =>
                    evolveCall.result =
                        Breed(SubSeq(sorted_population, 1, EliteCount),
                              sorted_population, sorted_fitness,
                              [current_mutation_rate |-> ga.current_mutation_rate,
                               current_mutation_strength |-> ga.current_mutation_strength],
                              evolveCall.draws)

\* A second call of evolve, entered with the base rate, was given a
\* population of little diversity: the rate lies strictly between its base
\* and its maximum, and a child was mutated that the base rate would have
\* left as it was.
C22_Witness ==
    /\ evolveCall.called /\ evolveCall.raised = ""
    /\ ga.generation = 2
    /\ CalculateDiversity(evolveCall.population) > 0
    /\ CalculateDiversity(evolveCall.population) < DIVERSITY_THRESHOLD
    /\ ga.current_mutation_rate > MUTATION_RATE
    /\ ga.current_mutation_rate < MUTATION_RATE_MAX
    /\ LET sorted_population ==
                SortedGenomes(evolveCall.fitness_scores, evolveCall.population)
            sorted_fitness ==
                SortedFitness(evolveCall.fitness_scores, evolveCall.population)
       IN  evolveCall.result #
               Breed(SubSeq(sorted_population, 1, EliteCount),
                     sorted_population, sorted_fitness,
                     [current_mutation_rate |-> MUTATION_RATE,
                      current_mutation_strength |-> MUTATION_STRENGTH],
                     evolveCall.draws)


(***************************************************************************)
(* List objects.  lists[id] is the content of the list object id; a        *)
(* population is a sequence of ids.  A list created by copy(), by a slice  *)
(* or by + is a new object.                                                *)
(***************************************************************************)
NewList(lists, genes) == [lists |-> Append(lists, genes), id |-> Len(lists) + 1]

\* list.copy()
ListCopy(lists, id) == NewList(lists, lists[id])

\* The ids of a population whose genomes are the first n list objects.
Ids(n) == [i \in 1..n |-> i]

\* _tournament_selection on list objects: population[winner_idx].copy()
TournamentSelectionRef(lists, population, fitness_scores, sample) ==
    ListCopy(lists, TournamentSelection(population, fitness_scores, sample))

(***************************************************************************)
(* SpecTournament: _tournament_selection applied to the first n genomes of *)
(* the initial population, for every sample random.sample can draw.        *)
(***************************************************************************)
InitTournament == InitEvolve

TournamentSelectionStep ==
    /\ ~fnCall.called
    /\ \E n \in 1..POPULATION_SIZE :
       \E fitness_scores \in FitnessVectors(n) :
       \E sample \in TournamentSamples(n) :
          LET lists == SubSeq(population_genes, 1, n)
              res == TournamentSelectionRef(lists, Ids(n), fitness_scores, sample)
          IN  fnCall' = [called |-> TRUE, op |-> "_tournament_selection",
                         before |-> lists,
                         population |-> Ids(n),
                         fitness_scores |-> fitness_scores,
                         sample |-> sample,
                         lists |-> res.lists,
                         result |-> res.id]
    /\ UNCHANGED <<gaVars, simVars, config>>

NextTournament == TournamentSelectionStep

SpecTournament == InitTournament /\ [][NextTournament]_vars

\* C23: tournament selection draws min(TOURNAMENT_SIZE, population size)
\* pairwise distinct indices of the population and returns a new list with
\* the genes of a drawn genome whose fitness is the highest among the drawn
\* ones, leaving the population's lists as they were; when TOURNAMENT_SIZE
\* is at least the population size, that fitness is the highest of the
\* whole population.
C23_Tournament ==
    (fnCall.called /\ fnCall.op = "_tournament_selection") =>
        LET n == Len(fnCall.population)
            k == Len(fnCall.sample)
            drawn == {fnCall.sample[a] : a \in 1..k}
            fit == fnCall.fitness_scores
        IN  /\ k = IF TOURNAMENT_SIZE < n THEN TOURNAMENT_SIZE ELSE n
            /\ drawn \subseteq 1..n
            /\ Cardinality(drawn) = k
            /\ \E w \in drawn :
                  /\ \A i \in drawn : fit[i] <= fit[w]
                  /\ fnCall.lists[fnCall.result] = fnCall.before[fnCall.population[w]]
                  /\ TOURNAMENT_SIZE >= n => \A i \in 1..n : fit[i] <= fit[w]
            /\ \A i \in 1..n : fnCall.result # fnCall.population[i]
            /\ \A id \in 1..Len(fnCall.before) : fnCall.lists[id] = fnCall.before[id]

\* A tournament over more genomes than TOURNAMENT_SIZE whose winner is
\* neither the first index drawn nor the best of the population, and whose
\* genes no other genome of the population has.
C23_Witness ==
    /\ fnCall.called /\ fnCall.op = "_tournament_selection"
    /\ Len(fnCall.population) > TOURNAMENT_SIZE
    /\ fnCall.lists[fnCall.result] # fnCall.before[fnCall.sample[1]]
    /\ \E i \in 1..Len(fnCall.population) :
          /\ fnCall.fitness_scores[i] > MaxSeq([a \in 1..Len(fnCall.sample) |->
                                                  fnCall.fitness_scores[fnCall.sample[a]]])
    /\ Cardinality({i \in 1..Len(fnCall.population) :
                       fnCall.before[i] = fnCall.lists[fnCall.result]}) = 1


(***************************************************************************)
(* SpecBody: config.py is loaded with some text as its CREATURE_TYPE, the  *)
(* initial population has the MOTOR_COUNT that text gives, and             *)
(* _init_generation builds a creature for each genome of the population.   *)
(***************************************************************************)
\* The values of CREATURE_TYPE config.py may be given at line 24.
Selectors == {"QUADRUPED", "BIPED", "quadruped", "biped", "TRIPOD", "HEXAPOD", ""}

\* The module-level assignments of config.py under a value of CREATURE_TYPE:
\* the quadruped profile for 'QUADRUPED', the biped profile for any other
\* value.
ImportConfig(creature_type) ==
    LET quadruped == creature_type = "QUADRUPED"
        torso_height == IF quadruped THEN 20 ELSE 30
        motor_count == IF quadruped THEN 8 ELSE 4
    IN  [ConfigDefaults EXCEPT
            !.CREATURE_TYPE = creature_type,
            !.TORSO_WIDTH = IF quadruped THEN 100 ELSE 60,
            !.TORSO_HEIGHT = torso_height,
            !.TORSO_MASS = IF quadruped THEN 8 ELSE 6,
            !.MOTOR_COUNT = motor_count,
            !.QUADRUPED_LEG_X_OFFSET = IF quadruped THEN 8 ELSE 0,
            !.HIP_MIN_ANGLE = IF quadruped THEN -1200 ELSE -800,
            !.HIP_MAX_ANGLE = IF quadruped THEN 1200 ELSE 600,
            !.KNEE_MIN_ANGLE = IF quadruped THEN -500 ELSE 0,
            !.KNEE_MAX_ANGLE = IF quadruped THEN 1500 ELSE 1200,
            !.GENE_COUNT = GENES_PER_MOTOR * motor_count,
            !.EXPECTED_STANDING_HEIGHT =
                THIGH_LENGTH + SHIN_LENGTH + FOOT_HEIGHT + torso_height \div 2]

\* The creature __init__ leaves behind under a value of CREATURE_TYPE: its
\* bodies by the names of their parts, and one motor per hip and knee.
BuiltCreature(creature_type, genes, creature_id) ==
    LET legs == CreateBodyLegs(creature_type)
    IN  [creature_id |-> creature_id,
         genes |-> genes,
         is_alive |-> TRUE,
         bodies |-> <<"torso">> \o Flatten([k \in 1..Len(legs) |->
                                    <<legs[k].thigh, legs[k].shin, legs[k].foot>>]),
         motors |-> [i \in 1..(2 * Len(legs)) |-> 0]]

InitBody ==
    /\ \E creature_type \in Selectors : config = ImportConfig(creature_type)
    /\ ga = GeneticAlgorithmInit
    /\ \E seed \in 0..MaxSeed :
          population_genes =
              [k \in 1..POPULATION_SIZE |->
                  SubSeq(RandomGenes(seed, k), 1, config.GENE_COUNT)]
    /\ evolveCall = NoCall
    /\ fnCall = NoCall
    /\ creatures = <<>>
    /\ sim = NoSimulation
    /\ pc = "none"
    /\ hist = NoCreatureCall

\* One iteration of the loop of _init_generation: Creature(...) runs
\* _create_body, which raises nothing.
CreateBodyCall ==
    /\ Len(creatures) < Len(population_genes)
    /\ creatures' = Append(creatures,
                           BuiltCreature(config.CREATURE_TYPE,
                                         population_genes[Len(creatures) + 1],
                                         Len(creatures)))
    /\ hist' = [hist EXCEPT !.called = TRUE, !.op = "_create_body", !.raised = ""]
    /\ UNCHANGED <<gaVars, fnCall, sim, pc, config>>

NextBody == CreateBodyCall

SpecBody == InitBody /\ [][NextBody]_vars

\* C24: when CREATURE_TYPE is neither BIPED nor QUADRUPED, building a body
\* ends with an error and no creature has a body.
C24_UnknownSelectorFailsFast ==
    (hist.called /\ hist.op = "_create_body"
        /\ config.CREATURE_TYPE \notin {"BIPED", "QUADRUPED"}) =>
            /\ hist.raised # ""
            /\ creatures = <<>>


(***************************************************************************)
(* SpecShared: two creatures whose genomes differ only in the frequency    *)
(* genes of the motors after motor 0 go through the same body states, the  *)
(* same updates and the same death checks.                                 *)
(***************************************************************************)
\* genes with the frequency gene of every motor after motor 0 replaced.
WithOtherFrequencies(genes, frequency) ==
    [p \in 1..Len(genes) |->
        IF GeneType(p) = 1 /\ p > GENES_PER_MOTOR THEN frequency ELSE genes[p]]

\* genes with the frequency gene of the last motor replaced.
WithLastFrequency(genes, frequency) ==
    [genes EXCEPT ![Len(genes) - 1] = frequency]

FrequencyVariants(genes) ==
    {WithOtherFrequencies(genes, FREQUENCY_MIN), WithLastFrequency(genes, FREQUENCY_MAX)}

InitShared ==
    /\ config = ConfigDefaults
    /\ ga = GeneticAlgorithmInit
    /\ \E seed \in 0..MaxSeed : population_genes = CreateInitialPopulation(seed)
    /\ evolveCall = NoCall
    /\ fnCall = NoCall
    /\ \E genes \in FrequencyVariants(population_genes[1]) :
          creatures = << Creature(GroundSpace, START_X, START_Y, population_genes[1], 0),
                         Creature(GroundSpace, START_X, START_Y, genes, 0) >>
    /\ sim = NoSimulation
    /\ pc = "none"
    /\ hist = NoCreatureCall

\* Both spaces are stepped to the same body state.
SharedSpaceStep ==
    /\ \E body \in Postures :
          creatures' = [i \in 1..Len(creatures) |-> [creatures[i] EXCEPT !.body = body]]
    /\ hist' = [hist EXCEPT !.called = TRUE, !.op = "step"]
    /\ UNCHANGED <<gaVars, fnCall, sim, pc, config>>

\* update(dt, current_time) on both creatures.
SharedUpdateCall ==
    /\ ~creatures[1].is_alive \/ creatures[1].time_alive < SIMULATION_TIME
    /\ creatures' = [i \in 1..Len(creatures) |->
                        Update(creatures[i], 1, creatures[1].time_alive + 1)]
    /\ hist' = [hist EXCEPT !.called = TRUE, !.op = "update"]
    /\ UNCHANGED <<gaVars, fnCall, sim, pc, config>>

\* check_death on both creatures.
SharedCheckDeathCall ==
    /\ creatures' = [i \in 1..Len(creatures) |-> CheckDeath(creatures[i], 0).creature]
    /\ hist' = [hist EXCEPT !.called = TRUE, !.op = "check_death"]
    /\ UNCHANGED <<gaVars, fnCall, sim, pc, config>>

NextShared == SharedSpaceStep \/ SharedUpdateCall \/ SharedCheckDeathCall

SpecShared == InitShared /\ [][NextShared]_vars

\* C25: with SHARED_FREQUENCY on, the frequency genes of the motors after
\* motor 0 have no effect: two creatures whose genomes differ only in those
\* genes, taken through the same body states and calls, have the same motor
\* rates, energy, fitness and every other field in every state.
C25_SharedFrequency ==
    /\ \A p \in 1..Len(creatures[1].genes) :
          (GeneType(p) # 1 \/ p <= GENES_PER_MOTOR) =>
              creatures[2].genes[p] = creatures[1].genes[p]
    /\ creatures[2].motors = creatures[1].motors
    /\ creatures[2].energy_used = creatures[1].energy_used
    /\ creatures[2].fitness = creatures[1].fitness
    /\ [creatures[2] EXCEPT !.genes = creatures[1].genes] = creatures[1]

\* Two living creatures with different frequency genes after motor 0 have
\* been updated twice, their motors are driven and energy has been spent.
C25_Witness ==
    /\ hist.called /\ hist.op = "update"
    /\ creatures[1].is_alive
    /\ creatures[1].update_count >= 2
    /\ creatures[1].energy_used > 0
    /\ \E i \in 2..Len(creatures[1].motors) : creatures[1].motors[i] # 0
    /\ \E p \in (GENES_PER_MOTOR + 1)..Len(creatures[1].genes) :
          /\ GeneType(p) = 1
          /\ creatures[2].genes[p] # creatures[1].genes[p]


(***************************************************************************)
(* evolve on list objects.  The only writes evolve makes to an existing    *)
(* list are the assignments mutated[i] = ... of _mutate; everything else   *)
(* creates lists.                                                          *)
(***************************************************************************)
\* A variant of elitism that keeps the genome itself instead of a copy.
EliteAlias(lists, id) == [lists |-> lists, id |-> id]

\* new_population.append(sorted_population[i].copy())
EliteCopy(lists, id) == ListCopy(lists, id)

\* The for loop of elitism over the first elite_count genomes.
RECURSIVE ElitesRef(_, _, _, _)
ElitesRef(lists, new_population, sorted_population, i) ==
    IF i > EliteCount THEN [lists |-> lists, population |-> new_population]
    ELSE LET elite == EliteCopy(lists, sorted_population[i])
         IN  ElitesRef(elite.lists, Append(new_population, elite.id),
                       sorted_population, i + 1)

\* _select_parent: both selection methods return population[...].copy()
SelectParentRef(lists, population, fitness_scores, draw) ==
    ListCopy(lists, SelectParent(population, fitness_scores, draw))

\* _crossover: each child is the concatenation of two slices, a new list.
CrossoverRef(lists, parent1, parent2, point) ==
    LET crossed == Crossover(lists[parent1], lists[parent2], point)
        child1 == NewList(lists, crossed.child1)
        child2 == NewList(child1.lists, crossed.child2)
    IN  [lists |-> child2.lists, child1 |-> child1.id, child2 |-> child2.id]

\* child1, child2 = parent1.copy(), parent2.copy()
CopyParentsRef(lists, parent1, parent2) ==
    LET child1 == ListCopy(lists, parent1)
        child2 == ListCopy(child1.lists, parent2)
    IN  [lists |-> child2.lists, child1 |-> child1.id, child2 |-> child2.id]

\* _mutate: mutated = genes.copy(), then the assignments to mutated[i].
MutateRef(lists, genes, rate, strength, draw) ==
    LET mutated == ListCopy(lists, genes)
    IN  [lists |-> [mutated.lists EXCEPT
                       ![mutated.id] = Mutate(@, rate, strength, draw)],
         id |-> mutated.id]

\* The while loop of evolve on list objects.
RECURSIVE BreedRef(_, _, _, _, _, _)
BreedRef(lists, new_population, sorted_population, sorted_fitness, g, draws) ==
    IF Len(new_population) >= POPULATION_SIZE
    THEN [lists |-> lists, population |-> new_population]
    ELSE LET d == Head(draws)
             parent1 == SelectParentRef(lists, sorted_population, sorted_fitness,
                                        d.select1)
             parent2 == SelectParentRef(parent1.lists, sorted_population,
                                        sorted_fitness, d.select2)
             crossed == IF RandomBelow(d.r, CROSSOVER_RATE)
                        THEN CrossoverRef(parent2.lists, parent1.id, parent2.id, d.point)
                        ELSE CopyParentsRef(parent2.lists, parent1.id, parent2.id)
             child1 == MutateRef(crossed.lists, crossed.child1,
                                 g.current_mutation_rate,
                                 g.current_mutation_strength, d.mut1)
             child2 == MutateRef(child1.lists, crossed.child2,
                                 g.current_mutation_rate,
                                 g.current_mutation_strength, d.mut2)
             appended == Append(new_population, child1.id)
         IN  BreedRef(child2.lists,
                      IF Len(appended) < POPULATION_SIZE
                      THEN Append(appended, child2.id) ELSE appended,
                      sorted_population, sorted_fitness, g, Tail(draws))

\* The genes of the genomes of a population of list objects.
Genes(lists, population) == [i \in 1..Len(population) |-> lists[population[i]]]

\* evolve(population, fitness_scores) on list objects: population is a
\* sequence of ids, fitness_scores the id of the fitness list.
EvolveRef(g, lists, population, fitness_scores, draws) ==
    LET fitness == lists[fitness_scores]
        diversity == CalculateDiversity(Genes(lists, population))
        g1 == [g EXCEPT !.generation = @ + 1,
                        !.best_fitness_history = Append(@, MaxSeq(fitness)),
                        !.avg_fitness_history =
                            Append(@, FDiv(SumSeq(fitness), Len(fitness))),
                        !.diversity_history = Append(@, diversity)]
        g2 == UpdateAdaptiveMutation(g1, diversity)
        sorted_pairs == SortedPairs(fitness, population)
        sorted_population == [i \in 1..Len(sorted_pairs) |-> sorted_pairs[i].genes]
        sorted_fitness == [i \in 1..Len(sorted_pairs) |-> sorted_pairs[i].fit]
        elites == ElitesRef(lists, <<>>, sorted_population, 1)
        bred == BreedRef(elites.lists, elites.population, sorted_population,
                         sorted_fitness, g2, draws)
    IN  [ga |-> g2, lists |-> bred.lists, population |-> bred.population]

(***************************************************************************)
(* SpecStorage: the run of a Simulation seen as list objects: creatures    *)
(* are created holding the genomes of the population, and evolve is called *)
(* with that population and the creatures' fitness list.                   *)
(***************************************************************************)
MaxStorageGenerations == 2

InitStorage ==
    /\ config = ConfigDefaults
    /\ ga = GeneticAlgorithmInit
    /\ \E seed \in 0..MaxSeed : population_genes = CreateInitialPopulation(seed)
    /\ evolveCall = [called |-> FALSE, lists |-> population_genes,
                     result |-> Ids(Len(population_genes))]
    /\ fnCall = NoCall
    /\ creatures = <<>>
    /\ sim = NoSimulation
    /\ pc = "create"
    /\ hist = NoCall

\* The loop of _init_generation: creature i keeps population_genes[i] itself
\* as its genes.  created_with remembers the genes that list had then.
StorageCreate ==
    /\ pc = "create"
    /\ creatures' = [i \in 1..Len(evolveCall.result) |->
                        [creature_id |-> i - 1,
                         genes |-> evolveCall.result[i],
                         created_with |-> evolveCall.lists[evolveCall.result[i]]]]
    /\ pc' = "evolve"
    /\ UNCHANGED <<gaVars, fnCall, sim, hist, config>>

\* _init_generation with creatures: fitness_scores is a new list, and
\* population_genes becomes what evolve returns.
StorageEvolve ==
    /\ pc = "evolve"
    /\ ga.generation < MaxStorageGenerations
    /\ \E scores \in FitnessVectors(Len(creatures)) :
       \E draws \in [1..LoopCount -> EvolveDraws(Len(creatures))] :
       \E fitness_scores \in {NewList(evolveCall.lists, scores)} :
       \E res \in {EvolveRef(ga, fitness_scores.lists, evolveCall.result,
                             fitness_scores.id, draws)} :
          /\ ga' = res.ga
          /\ population_genes' = Genes(res.lists, res.population)
          /\ evolveCall' = [called |-> TRUE,
                            ga |-> ga,
                            before |-> fitness_scores.lists,
                            population |-> evolveCall.result,
                            fitness_scores |-> fitness_scores.id,
                            draws |-> draws,
                            lists |-> res.lists,
                            result |-> res.population]
    /\ pc' = "create"
    /\ UNCHANGED <<fnCall, creatures, sim, hist, config>>

NextStorage == StorageCreate \/ StorageEvolve

SpecStorage == InitStorage /\ [][NextStorage]_vars

\* C26: evolve leaves every list it was given as it was (the genomes of the
\* input population and the fitness list); every genome it returns is a
\* list created by that call, different from every other returned genome;
\* the returned genomes have the genes evolve computes; and the list a
\* creature holds as its genes still has the genes it was created with.
C26_FreshGenomes ==
    /\ evolveCall.called =>
          /\ \A id \in 1..Len(evolveCall.before) :
                evolveCall.lists[id] = evolveCall.before[id]
          /\ \A i \in 1..Len(evolveCall.result) :
                /\ evolveCall.result[i] > Len(evolveCall.before)
                /\ \A j \in 1..Len(evolveCall.result) :
                      i # j => evolveCall.result[i] # evolveCall.result[j]
          /\ Genes(evolveCall.lists, evolveCall.result) =
                Evolve(evolveCall.ga,
                       Genes(evolveCall.before, evolveCall.population),
                       evolveCall.before[evolveCall.fitness_scores],
                       evolveCall.draws).population
    /\ \A i \in 1..Len(creatures) :
          evolveCall.lists[creatures[i].genes] = creatures[i].created_with

\* evolve has returned while creatures hold the genomes it was given: an
\* elite has the genes of an input genome in a list of its own, and a child
\* has genes no input genome has.
C26_Witness ==
    /\ evolveCall.called /\ pc = "create"
    /\ ga.generation = 2
    /\ creatures # <<>>
    /\ \A i \in 1..Len(creatures) : creatures[i].genes = evolveCall.population[i]
    /\ \E i \in 1..Len(evolveCall.population) :
          evolveCall.lists[evolveCall.result[1]] = evolveCall.before[evolveCall.population[i]]
    /\ \E i \in 1..Len(evolveCall.result) :
          \A j \in 1..Len(evolveCall.population) :
             evolveCall.lists[evolveCall.result[i]] # evolveCall.before[evolveCall.population[j]]

=============================================================================
